---- MODULE Spec2Model ----
(***************************************************************************)
(* Model of the request execution core of the Sendly Node SDK:             *)
(* HttpClient (utils/http.ts) and SendlyError.fromResponse (errors.ts).    *)
(*                                                                         *)
(* JavaScript values that may be undefined are modelled as sets with at    *)
(* most one element: {} is undefined, {x} is the value x.                  *)
(* Strings the code inspects character by character (API keys, host names, *)
(* header values) are sequences of one-character strings.                  *)
(***************************************************************************)
EXTENDS Integers, Sequences, FiniteSets, TLC

VARIABLES
    ctor,            \* "new" | "ok" | "threw": how the HttpClient constructor ended
    config,          \* this.config
    rateLimitInfo,   \* this.rateLimitInfo ({} until first set)
    pc,              \* position of the current call to request()
    attempt,         \* loop variable of request()
    lastError,       \* local lastError of request() ({} = undefined)
    inflight,        \* the Response object held between headers and body
    result,          \* value the call resolved with
    thrown,          \* error the call rejected with
    transportCalls,  \* number of fetch() invocations made by the current call
    sleepCount,      \* number of sleep() invocations made by the current call
    lastSleep,       \* duration in ms of the latest sleep() of the current call
    outcome,         \* what the latest attempt of the current call observed
    onlyRetryable,   \* every attempt so far ended in a 5xx / network / timeout failure
    onlyRateLimited, \* every attempt so far was answered 429 rate_limit_exceeded
    lastFullHeaders, \* raw header triple of the latest response carrying all three
    wire,            \* scheme, host and bearer token of the latest fetch()
    clsIn,           \* input handed to SendlyError.fromResponse (classifier runs)
    clsOut,          \* error it returned
    fnIn,            \* argument handed to a validation / webhook utility ({} = not called)
    fnOut,           \* how that call ended: the value returned or the error thrown
    mPc,             \* position of the current call to a MessagesResource method
    mCall,           \* that call: the method and its arguments
    mStep,           \* index in the method's body of the statement being awaited
    mFrame,          \* locals of listAll: batchSize and offset
    mThrown,         \* error the call rejected with
    httpLog,         \* the options of each this.http.request() of the call, in order
    pages,           \* the pages listAll received, in order
    yielded,         \* the items listAll yielded, in order
    calls            \* the locals of each of several request() calls on one client

vars == <<ctor, config, rateLimitInfo, pc, attempt, lastError, inflight, result,
          thrown, transportCalls, sleepCount, lastSleep, outcome, onlyRetryable,
          onlyRateLimited, lastFullHeaders, wire, clsIn, clsOut, fnIn, fnOut,
          mPc, mCall, mStep, mFrame, mThrown, httpLog, pages, yielded, calls>>

callVars == <<pc, attempt, lastError, inflight, result, thrown, transportCalls,
              sleepCount, lastSleep, outcome, onlyRetryable, onlyRateLimited, wire>>

clientVars == <<ctor, config, rateLimitInfo, lastFullHeaders>>

clsVars == <<clsIn, clsOut>>

utilVars == <<fnIn, fnOut>>

msgVars == <<mPc, mCall, mStep, mFrame, mThrown, httpLog, pages, yielded>>

concVars == <<calls>>

-----------------------------------------------------------------------------
(* Bounds of the model *)

\* largest explicit maxRetries a caller passes (the default, 3, is always tried)
MaxRetriesInput == 1

\* a maxRetries large enough for the backoff to reach its cap: 2^5 * 1000 > 30000
\* is slept after the attempt with index 5, which needs maxRetries >= 6
CapRetriesInput == 6

-----------------------------------------------------------------------------
(* Program constants *)

DEFAULT_TIMEOUT == 30000

DEFAULT_MAX_RETRIES == 3

DefaultRetryAfter == 60

MaxBackoff == 30000

BaseDelayMs == 1000

MaxJitter == 500

\* the value x of a defined optional {x}
The(opt) == CHOOSE x \in opt : TRUE

\* JavaScript  a || d  on optional numbers: undefined and 0 are falsy
OrNum(opt, d) == IF opt = {} \/ opt = {0} THEN d ELSE The(opt)

\* JavaScript  a ?? d : only undefined (null) takes the default
Nullish(opt, d) == IF opt = {} THEN d ELSE The(opt)

Min(a, b) == IF a < b THEN a ELSE b

RECURSIVE Pow2(_)
Pow2(n) == IF n <= 0 THEN 1 ELSE 2 * Pow2(n - 1)

-----------------------------------------------------------------------------
(* errors.ts: the error classes and SendlyError.fromResponse *)

\* a response body document; every field is optional
NoDoc == [id |-> {}, error |-> {}, message |-> {}, retryAfter |-> {},
          creditsNeeded |-> {}, currentBalance |-> {}]

\* message texts: one the server sent, or the client's "HTTP <status>"
ServerMessage == [text |-> "server", status |-> {}]

HttpMessage(statusCode) == [text |-> "HTTP", status |-> {statusCode}]

UnknownErrorMessage == [text |-> "An unknown error occurred", status |-> {}]

\* new SendlyError(message, code, statusCode, response) and its subclasses:
\* kind is the class (Generic = SendlyError itself)
SendlyErrorBase(kind, message, code, statusCode, response) ==
    [kind |-> kind, message |-> message, code |-> code, statusCode |-> statusCode,
     response |-> response, retryAfter |-> {}, creditsNeeded |-> {},
     currentBalance |-> {}, cause |-> {}]

AuthenticationError(message, code, statusCode, response) ==
    SendlyErrorBase("Authentication", message, code, statusCode, response)

RateLimitError(message, retryAfter, statusCode, response) ==
    [SendlyErrorBase("RateLimit", message, "rate_limit_exceeded", statusCode, response)
        EXCEPT !.retryAfter = {retryAfter}]

InsufficientCreditsError(message, creditsNeeded, currentBalance, statusCode, response) ==
    [SendlyErrorBase("InsufficientCredits", message, "insufficient_credits",
                     statusCode, response)
        EXCEPT !.creditsNeeded = {creditsNeeded}, !.currentBalance = {currentBalance}]

ValidationError(message, code, statusCode, response) ==
    SendlyErrorBase("Validation", message, code, statusCode, response)

NotFoundError(message, statusCode, response) ==
    SendlyErrorBase("NotFound", message, "not_found", statusCode, response)

NetworkError(message, cause) ==
    [SendlyErrorBase("Network", message, "internal_error", {}, {}) EXCEPT !.cause = cause]

TimeoutError(message) ==
    SendlyErrorBase("Timeout", message, "internal_error", {}, {})

\* the SyntaxError response.json() throws on a malformed body: not a SendlyError
JsonSyntaxError ==
    [kind |-> "SyntaxError", message |-> [text |-> "Unexpected token", status |-> {}],
     code |-> "", statusCode |-> {}, response |-> {}, retryAfter |-> {},
     creditsNeeded |-> {}, currentBalance |-> {}, cause |-> {}]

SendlyErrorKinds == {"Authentication", "RateLimit", "InsufficientCredits", "Validation",
                     "NotFound", "Network", "Timeout", "Generic"}

\* error instanceof SendlyError
IsSendlyError(error) == error.kind \in SendlyErrorKinds

\* the code cases of the switch in fromResponse
AuthCodesMissingExpired == {"unauthorized", "invalid_auth_format", "invalid_key_format",
                            "invalid_api_key", "key_revoked",
                            "insufficient_permissions"}

AuthCodes == {"unauthorized", "invalid_auth_format", "invalid_key_format",
              "invalid_api_key", "key_revoked", "key_expired",
              "insufficient_permissions"}

ValidationCodes == {"invalid_request", "unsupported_destination"}

\* response.retryAfter || 60
RetryAfterOf(response) == OrNum(response.retryAfter, DefaultRetryAfter)

FromResponse(statusCode, response) ==
    LET message == IF response.message = {} THEN UnknownErrorMessage
                   ELSE The(response.message)
        code    == IF response.error = {} THEN "internal_error" ELSE The(response.error)
    IN  CASE code \in AuthCodes ->
               AuthenticationError(message, code, {statusCode}, {response})
          [] code = "rate_limit_exceeded" ->
               RateLimitError(message, RetryAfterOf(response), {statusCode}, {response})
          [] code = "insufficient_credits" ->
               InsufficientCreditsError(message, OrNum(response.creditsNeeded, 0),
                                        OrNum(response.currentBalance, 0),
                                        {statusCode}, {response})
          [] code \in ValidationCodes ->
               ValidationError(message, code, {statusCode}, {response})
          [] code = "not_found" ->
               NotFoundError(message, {statusCode}, {response})
          [] OTHER ->
               SendlyErrorBase("Generic", message, code, {statusCode}, {response})

-----------------------------------------------------------------------------
(* utils/http.ts: HttpClient constructor *)

Lower == {"a","b","c","d","e","f","g","h","i","j","k","l","m",
          "n","o","p","q","r","s","t","u","v","w","x","y","z"}

Upper == {"A","B","C","D","E","F","G","H","I","J","K","L","M",
          "N","O","P","Q","R","S","T","U","V","W","X","Y","Z"}

Digits == {"0","1","2","3","4","5","6","7","8","9"}

\* the character class [a-zA-Z0-9_-]
TokenChars == Lower \cup Upper \cup Digits \cup {"_", "-"}

SkTestPrefix == <<"s","k","_","t","e","s","t","_","v","1","_">>

SkLivePrefix == <<"s","k","_","l","i","v","e","_","v","1","_">>

\* String.prototype.startsWith
StartsWith(str, prefix) ==
    Len(str) >= Len(prefix) /\ SubSeq(str, 1, Len(prefix)) = prefix

\* String.prototype.includes
Includes(str, sub) ==
    \E i \in 1..(Len(str) - Len(sub) + 1) : SubSeq(str, i, i + Len(sub) - 1) = sub

\* the same test with * in place of +: an empty token passes
IsValidApiKeyEmptyToken(key) ==
    \E prefix \in {SkTestPrefix, SkLivePrefix} :
        /\ StartsWith(key, prefix)
        /\ \A i \in (Len(prefix) + 1)..Len(key) : key[i] \in TokenChars

\* /^sk_(test|live)_v1_[a-zA-Z0-9_-]+$/.test(key)
IsValidApiKey(key) ==
    \E prefix \in {SkTestPrefix, SkLivePrefix} :
        /\ StartsWith(key, prefix)
        /\ Len(key) > Len(prefix)
        /\ \A i \in (Len(prefix) + 1)..Len(key) : key[i] \in TokenChars

Localhost == <<"l","o","c","a","l","h","o","s","t">>

Loopback4 == <<"1","2","7",".","0",".","0",".","1">>

\* the condition under which the constructor does NOT throw the HTTPS error
TransportAllowed(url) ==
    ~ ( /\ url.protocol # "https:"
        /\ ~ Includes(url.hostname, Localhost)
        /\ url.hostname # Loopback4 )

\* what new URL(baseUrl) yields: parsed scheme and host, or a TypeError
DefaultBaseUrl ==
    [parses |-> TRUE, protocol |-> "https:",
     hostname |-> <<"s","e","n","d","l","y",".","l","i","v","e">>]

\* this.config as the constructor assembles it
BuildConfig(input) ==
    [apiKey     |-> input.apiKey,
     baseUrl    |-> Nullish(input.baseUrl, DefaultBaseUrl),
     timeout    |-> OrNum(input.timeout, DEFAULT_TIMEOUT),
     maxRetries |-> Nullish(input.maxRetries, DEFAULT_MAX_RETRIES)]

\* TRUE iff the constructor returns normally for this.config = cfg
ConstructorAccepts(cfg) ==
    /\ IsValidApiKey(cfg.apiKey)
    /\ cfg.baseUrl.parses
    /\ TransportAllowed(cfg.baseUrl)

\* isTestMode(): this.config.apiKey.startsWith("sk_test_")
IsTestMode(cfg) == StartsWith(cfg.apiKey, <<"s","k","_","t","e","s","t","_">>)

\* keys and base URLs callers construct clients with
KeyTest == SkTestPrefix \o <<"a","B","-","_","9">>

KeyLive == SkLivePrefix \o <<"k">>

ApiKeyInputs ==
    { KeyTest, KeyLive,
      <<"p","k","_","t","e","s","t","_","v","1","_","a">>,
      SkTestPrefix,
      SkTestPrefix \o <<"a","!">>,
      <<"s","k","_","t","e","s","t","_","v","2","_","a">> }

HostExample == <<"a","p","i",".","e","x","a","m","p","l","e",".","c","o","m">>

HostLocalhostEvil == Localhost \o <<".","e","v","i","l",".","i","o">>

BaseUrlInputs ==
    { {},
      {[parses |-> TRUE, protocol |-> "http:", hostname |-> HostExample]},
      {[parses |-> TRUE, protocol |-> "http:", hostname |-> Localhost]},
      {[parses |-> TRUE, protocol |-> "http:", hostname |-> Loopback4]},
      {[parses |-> TRUE, protocol |-> "http:", hostname |-> HostLocalhostEvil]},
      {[parses |-> FALSE, protocol |-> "", hostname |-> <<>>]} }

TimeoutInputs == { {}, {0} }

MaxRetriesInputs ==
    { {} } \cup { {n} : n \in (-1)..MaxRetriesInput } \cup { {CapRetriesInput} }

\* the constructor inputs tried: each option is varied with the others at a
\* fixed value
ConfigInputs ==
    { [apiKey |-> KeyTest, baseUrl |-> {}, timeout |-> {}, maxRetries |-> mr] :
        mr \in MaxRetriesInputs }
    \cup { [apiKey |-> k, baseUrl |-> {}, timeout |-> {}, maxRetries |-> {0}] :
        k \in ApiKeyInputs }
    \cup { [apiKey |-> KeyTest, baseUrl |-> u, timeout |-> t, maxRetries |-> {0}] :
        u \in BaseUrlInputs, t \in TimeoutInputs }

NoConfig == [apiKey |-> <<>>, baseUrl |-> DefaultBaseUrl, timeout |-> 0, maxRetries |-> 0]

-----------------------------------------------------------------------------
(* utils/http.ts: the pure helpers of HttpClient.request *)

DigitValue == ("0" :> 0) @@ ("1" :> 1) @@ ("2" :> 2) @@ ("3" :> 3) @@ ("4" :> 4) @@
              ("5" :> 5) @@ ("6" :> 6) @@ ("7" :> 7) @@ ("8" :> 8) @@ ("9" :> 9)

\* value of the longest run of decimal digits of str starting at index i, given
\* the value acc of the digits already read
RECURSIVE ParseDigits(_, _, _)
ParseDigits(str, i, acc) ==
    IF i > Len(str) \/ str[i] \notin Digits THEN acc
    ELSE ParseDigits(str, i + 1, 10 * acc + DigitValue[str[i]])

\* parseInt(str, 10): {} is NaN
ParseInt(str) ==
    IF Len(str) >= 1 /\ str[1] \in Digits THEN {ParseDigits(str, 1, 0)}
    ELSE IF Len(str) >= 2 /\ str[1] = "-" /\ str[2] \in Digits
         THEN {0 - ParseDigits(str, 2, 0)}
    ELSE {}

\* truthiness of headers.get(name): null and "" are falsy
HeaderTruthy(h) == h # {} /\ The(h) # <<>>

\* the guard of updateRateLimitInfo as a bug would write it: parse, then test the numbers
HeadersCompleteParsed(headers) ==
    /\ headers.limit # {}
    /\ headers.remaining # {}
    /\ headers.reset # {}
    /\ ParseInt(The(headers.limit)) \notin {{}, {0}}
    /\ ParseInt(The(headers.remaining)) \notin {{}, {0}}
    /\ ParseInt(The(headers.reset)) \notin {{}, {0}}

\* limit && remaining && reset
HeadersComplete(headers) ==
    /\ HeaderTruthy(headers.limit)
    /\ HeaderTruthy(headers.remaining)
    /\ HeaderTruthy(headers.reset)

\* an update that forgets the snapshot when a header is missing
UpdateRateLimitInfoClearing(headers, current) ==
    IF HeadersComplete(headers)
    THEN {[limit     |-> ParseInt(The(headers.limit)),
           remaining |-> ParseInt(The(headers.remaining)),
           reset     |-> ParseInt(The(headers.reset))]}
    ELSE {}

\* an update that writes remaining and reset into the existing object and
\* keeps its limit
UpdateRateLimitInfoFieldwise(headers, current) ==
    IF HeadersComplete(headers)
    THEN {[limit     |-> IF current = {} THEN ParseInt(The(headers.limit))
                         ELSE The(current).limit,
           remaining |-> ParseInt(The(headers.remaining)),
           reset     |-> ParseInt(The(headers.reset))]}
    ELSE current

\* updateRateLimitInfo(headers): the new value of this.rateLimitInfo
UpdateRateLimitInfo(headers, current) ==
    IF HeadersComplete(headers)
    THEN {[limit     |-> ParseInt(The(headers.limit)),
           remaining |-> ParseInt(The(headers.remaining)),
           reset     |-> ParseInt(The(headers.reset))]}
    ELSE current

\* a backoff that grows by one base delay per attempt instead of doubling
CalculateBackoffLinear(a, jitter) == Min((a + 1) * BaseDelayMs + jitter, MaxBackoff)

\* a backoff without Math.min(..., 30000)
CalculateBackoffUncapped(a, jitter) == Pow2(a) * BaseDelayMs + jitter

\* calculateBackoff(attempt) for the jitter Math.random() * 500 drew
CalculateBackoff(a, jitter) == Min(Pow2(a) * BaseDelayMs + jitter, MaxBackoff)

\* the loop condition as an off-by-one would write it
LoopContinuesStrict(a, maxRetries) == a < maxRetries

\* for (...; attempt <= this.config.maxRetries; ...)
LoopContinues(a, maxRetries) == a <= maxRetries

\* response.ok
IsOk(status) == status >= 200 /\ status <= 299

\* the completion of parseResponse(response) once the body has been read:
\* [threw, value, error]
ParseResponse(response, body) ==
    IF response.contentType = "json" /\ ~ body.wellFormed
    THEN [threw |-> TRUE, value |-> {}, error |-> {JsonSyntaxError}]
    ELSE LET data == IF response.contentType = "json"
                     THEN [format |-> "json", doc |-> body.doc]
                     ELSE [format |-> "text", doc |-> body.doc]
             \* the fields errorResponse?.x reads: a text body has none
             errorResponse == IF data.format = "json" THEN data.doc ELSE NoDoc
             withDefaults ==
                 [errorResponse EXCEPT
                    !.error = IF errorResponse.error = {} THEN {"internal_error"}
                              ELSE errorResponse.error,
                    !.message = IF errorResponse.message = {}
                                THEN {HttpMessage(response.status)}
                                ELSE errorResponse.message]
         IN  IF ~ IsOk(response.status)
             THEN [threw |-> TRUE, value |-> {},
                   error |-> {FromResponse(response.status, withDefaults)}]
             ELSE [threw |-> FALSE, value |-> {data}, error |-> {}]

NonRetryStatuses == {{401}, {403}, {400}, {404}, {402}}

\* a catch block that never sleeps and retries
CatchDecisionGivingUp(error, a, maxRetries) ==
    IF IsSendlyError(error) /\ error.statusCode \in NonRetryStatuses THEN "throw"
    ELSE "fallThrough"

\* what the catch block of request() does with error on the attempt with index a:
\* "throw" | "rateLimitSleep" | "backoffSleep" | "fallThrough"
CatchDecision(error, a, maxRetries) ==
    IF IsSendlyError(error) /\ error.statusCode \in NonRetryStatuses THEN "throw"
    ELSE IF IsSendlyError(error) /\ error.kind = "RateLimit"
         THEN (IF a < maxRetries THEN "rateLimitSleep" ELSE "throw")
    ELSE IF a < maxRetries THEN "backoffSleep"
    ELSE "fallThrough"

\* throw lastError || new NetworkError("Request failed after retries")
FinalThrow(le) ==
    IF le = {}
    THEN {NetworkError([text |-> "Request failed after retries", status |-> {}], {})}
    ELSE le

-----------------------------------------------------------------------------
(* What the transport and the server may deliver *)

Statuses == {200, 400, 401, 402, 403, 404, 409, 429, 500}

ContentTypes == {"json", "text"}

Jitters == {0, MaxJitter - 1}

NoHeaders == [limit |-> {}, remaining |-> {}, reset |-> {}]

FullHeaders == [limit |-> {<<"1","0","0">>}, remaining |-> {<<"9","5">>},
                reset |-> {<<"3","6","0","0">>}]

\* the X-RateLimit-* headers of a response: all three, none, one missing or empty
HeaderInputs ==
    { NoHeaders, FullHeaders,
      [FullHeaders EXCEPT !.limit = {<<"0">>}],
      [FullHeaders EXCEPT !.remaining = {<<"0">>}, !.reset = {<<"0","7">>}],
      [FullHeaders EXCEPT !.limit = {}],
      [FullHeaders EXCEPT !.remaining = {}],
      [FullHeaders EXCEPT !.reset = {}],
      [FullHeaders EXCEPT !.limit = {<<>>}] }

PlainCodes == {"unauthorized", "invalid_request", "not_found", "teapot"}

RetryAfterInputs == { {}, {0}, {5}, {60} }

CreditInputs == { <<{}, {}>>, <<{5}, {2}>>, <<{0}, {0}>> }

SuccessDoc == [NoDoc EXCEPT !.id = {"msg_1"}]

ErrorDocs ==
    {NoDoc}
    \cup { [NoDoc EXCEPT !.error = {c}, !.message = {ServerMessage}] : c \in PlainCodes }
    \cup { [NoDoc EXCEPT !.error = {"rate_limit_exceeded"}, !.message = {ServerMessage},
                         !.retryAfter = ra] : ra \in RetryAfterInputs }
    \cup { [NoDoc EXCEPT !.error = {"insufficient_credits"}, !.message = {ServerMessage},
                         !.creditsNeeded = cr[1], !.currentBalance = cr[2]] :
           cr \in CreditInputs }

MalformedBody == [wellFormed |-> FALSE, doc |-> NoDoc]

\* bodies a response with the given status may carry
BodiesFor(status) ==
    {MalformedBody}
    \cup { [wellFormed |-> TRUE, doc |-> d] :
           d \in (IF IsOk(status) THEN {SuccessDoc} ELSE ErrorDocs) }

NoResponse == [status |-> 0, contentType |-> ""]

NoOutcome == [via |-> "none", status |-> {}, contentType |-> "", body |-> {}]

NoWire == [protocol |-> "", hostname |-> <<>>, bearer |-> <<>>]

-----------------------------------------------------------------------------
(* The state machine *)

InitCall ==
    /\ pc = "idle"
    /\ attempt = 0
    /\ lastError = {}
    /\ inflight = NoResponse
    /\ result = {}
    /\ thrown = {}
    /\ transportCalls = 0
    /\ sleepCount = 0
    /\ lastSleep = {}
    /\ outcome = NoOutcome
    /\ onlyRetryable = TRUE
    /\ onlyRateLimited = TRUE
    /\ wire = NoWire

Init ==
    /\ ctor = "new"
    /\ config = NoConfig
    /\ rateLimitInfo = {}
    /\ lastFullHeaders = {}
    /\ InitCall
    /\ clsIn = {}
    /\ clsOut = {}
    /\ fnIn = {}
    /\ fnOut = {}
    /\ mPc = "idle"
    /\ mCall = [method |-> "", args |-> <<>>]
    /\ mStep = 0
    /\ mFrame = [batchSize |-> 0, offset |-> 0]
    /\ mThrown = {}
    /\ httpLog = <<>>
    /\ pages = <<>>
    /\ yielded = <<>>
    /\ calls = <<>>

\* new HttpClient(input)
Construct ==
    /\ ctor = "new"
    /\ \E input \in ConfigInputs :
         /\ config' = BuildConfig(input)
         /\ ctor' = IF ConstructorAccepts(BuildConfig(input)) THEN "ok" ELSE "threw"
    /\ UNCHANGED <<rateLimitInfo, lastFullHeaders, callVars, clsVars, utilVars, msgVars, concVars>>

\* the head of the attempt loop for loop variable a with lastError le: either
\* executeRequest() calls fetch(), or the loop is left and the final throw runs
EnterLoop(a, le) ==
    /\ attempt' = a
    /\ IF LoopContinues(a, config.maxRetries)
       THEN /\ pc' = "fetching"
            /\ transportCalls' = (IF a = 0 THEN 0 ELSE transportCalls) + 1
            /\ wire' = [protocol |-> config.baseUrl.protocol,
                        hostname |-> config.baseUrl.hostname,
                        bearer   |-> config.apiKey]
            /\ thrown' = {}
       ELSE /\ pc' = "rejected"
            /\ transportCalls' = IF a = 0 THEN 0 ELSE transportCalls
            /\ wire' = wire
            /\ thrown' = FinalThrow(le)

\* request(options) up to its first await
Request ==
    /\ ctor = "ok"
    /\ pc \in {"idle", "resolved", "rejected"}
    /\ lastError' = {}
    /\ inflight' = NoResponse
    /\ result' = {}
    /\ sleepCount' = 0
    /\ lastSleep' = {}
    /\ outcome' = NoOutcome
    /\ onlyRetryable' = TRUE
    /\ onlyRateLimited' = TRUE
    /\ EnterLoop(0, {})
    /\ UNCHANGED <<clientVars, clsVars, utilVars, msgVars, concVars>>

\* the catch block of request() for the error of the current attempt
Catch(error) ==
    /\ lastError' = {error}
    /\ result' = {}
    /\ LET d == CatchDecision(error, attempt, config.maxRetries)
       IN  CASE d = "throw" ->
                  /\ pc' = "rejected"
                  /\ thrown' = {error}
                  /\ UNCHANGED <<attempt, sleepCount, lastSleep>>
             [] d = "rateLimitSleep" ->
                  /\ pc' = "sleeping"
                  /\ lastSleep' = {The(error.retryAfter) * 1000}
                  /\ sleepCount' = sleepCount + 1
                  /\ UNCHANGED <<attempt, thrown>>
             [] d = "backoffSleep" ->
                  /\ pc' = "sleeping"
                  /\ \E jitter \in Jitters :
                       lastSleep' = {CalculateBackoff(attempt, jitter)}
                  /\ sleepCount' = sleepCount + 1
                  /\ UNCHANGED <<attempt, thrown>>
             [] OTHER ->
                  \* the catch block ends, attempt++ ends the loop, lastError is thrown
                  /\ pc' = "rejected"
                  /\ attempt' = attempt + 1
                  /\ thrown' = FinalThrow({error})
                  /\ UNCHANGED <<sleepCount, lastSleep>>

\* fetch() rejects: the abort signal of the timeout, or any other transport failure
FetchFails ==
    /\ pc = "fetching"
    /\ \E via \in {"network", "abort"} :
         /\ outcome' = [NoOutcome EXCEPT !.via = via]
         /\ Catch(IF via = "abort"
                  THEN TimeoutError([text |-> "Request timed out", status |-> {}])
                  ELSE NetworkError([text |-> "Network request failed", status |-> {}],
                                    {"fetch failed"}))
    /\ inflight' = NoResponse
    /\ onlyRateLimited' = FALSE
    /\ UNCHANGED <<clientVars, clsVars, utilVars, msgVars, transportCalls, onlyRetryable, wire, concVars>>

\* fetch() resolves with a Response: updateRateLimitInfo runs, the body read starts
FetchResponds ==
    /\ pc = "fetching"
    /\ \E status \in Statuses, ct \in ContentTypes, headers \in HeaderInputs :
         /\ inflight' = [status |-> status, contentType |-> ct]
         /\ outcome' = [via |-> "response", status |-> {status}, contentType |-> ct,
                        body |-> {}]
         /\ rateLimitInfo' = UpdateRateLimitInfo(headers, rateLimitInfo)
         /\ lastFullHeaders' =
                IF /\ headers.limit \notin {{}, {<<>>}}
                   /\ headers.remaining \notin {{}, {<<>>}}
                   /\ headers.reset \notin {{}, {<<>>}}
                THEN {headers} ELSE lastFullHeaders
         /\ onlyRetryable' = (onlyRetryable /\ status >= 500 /\ status <= 599)
         /\ onlyRateLimited' = (onlyRateLimited /\ status = 429 /\ ct = "json")
    /\ pc' = "reading"
    /\ UNCHANGED <<ctor, config, clsVars, utilVars, msgVars, attempt, lastError, result, thrown,
                   transportCalls, sleepCount, lastSleep, wire, concVars>>

\* response.json() / response.text() settles and parseResponse finishes
BodyArrives ==
    /\ pc = "reading"
    /\ \E body \in BodiesFor(inflight.status) :
         LET done == ParseResponse(inflight, body)
         IN  /\ outcome' = [outcome EXCEPT !.body = {body}]
             /\ onlyRateLimited' = ( /\ onlyRateLimited
                                     /\ body.wellFormed
                                     /\ body.doc.error = {"rate_limit_exceeded"} )
             /\ IF done.threw
                THEN Catch(The(done.error))
                ELSE /\ pc' = "resolved"
                     /\ result' = done.value
                     /\ UNCHANGED <<attempt, lastError, thrown, sleepCount, lastSleep>>
    /\ inflight' = NoResponse
    /\ UNCHANGED <<clientVars, clsVars, utilVars, msgVars, transportCalls, onlyRetryable, wire, concVars>>

\* a sleep after which the loop variable is incremented twice
SleepCompletesSkipping ==
    /\ pc = "sleeping"
    /\ EnterLoop(attempt + 2, lastError)
    /\ UNCHANGED <<clientVars, clsVars, utilVars, msgVars, lastError, inflight, result, sleepCount,
                   lastSleep, outcome, onlyRetryable, onlyRateLimited, concVars>>

\* the sleep ends: continue, attempt++, the loop head runs again
SleepCompletes ==
    /\ pc = "sleeping"
    /\ EnterLoop(attempt + 1, lastError)
    /\ UNCHANGED <<clientVars, clsVars, utilVars, msgVars, lastError, inflight, result, sleepCount,
                   lastSleep, outcome, onlyRetryable, onlyRateLimited, concVars>>

Next ==
    \/ Construct
    \/ Request
    \/ FetchFails
    \/ FetchResponds
    \/ BodyArrives
    \/ SleepCompletes

Spec == Init /\ [][Next]_vars

-----------------------------------------------------------------------------
(* SendlyError.fromResponse on its own: every status with every body *)

\* every SendlyErrorCode, and a code the SDK does not know
AllCodes == {"invalid_request", "unauthorized", "invalid_auth_format",
             "invalid_key_format", "invalid_api_key", "api_key_required",
             "key_revoked", "key_expired", "insufficient_permissions",
             "insufficient_credits", "unsupported_destination", "not_found",
             "rate_limit_exceeded", "internal_error", "teapot"}

ClassifierDocs ==
    [id : {{}}, error : {{}} \cup {{c} : c \in AllCodes},
     message : {{}, {ServerMessage}}, retryAfter : RetryAfterInputs,
     creditsNeeded : {{}, {0}, {5}}, currentBalance : {{}, {0}, {2}}]

\* SendlyError.fromResponse(statusCode, response)
Classify ==
    /\ clsIn = {}
    /\ \E statusCode \in Statuses, response \in ClassifierDocs :
         /\ clsIn' = {[statusCode |-> statusCode, response |-> response]}
         /\ clsOut' = {FromResponse(statusCode, response)}
    /\ UNCHANGED <<clientVars, callVars, utilVars, msgVars, concVars>>

SpecClassify == Init /\ [][Classify]_vars

-----------------------------------------------------------------------------
(* utils/validation.ts: validatePhoneNumber *)

\* largest number of digits in the digit run of a phone number tried
MaxPhoneDigits == 16

\* n copies of the character c
Run(c, n) == [i \in 1..n |-> c]

\* how a utility call ends: it returns value, or it throws error
Returns(value) == [threw |-> FALSE, value |-> {value}, error |-> {}]

Throws(error) == [threw |-> TRUE, value |-> {}, error |-> {error}]

\* new ValidationError(text): code invalid_request, no status, no response
LocalValidationError(text) ==
    ValidationError([text |-> text, status |-> {}], "invalid_request", {}, {})

\* [1-9]\d{1,14}: the number of digits the pattern admits after the +
DigitCountInRange(n) == n >= 2 /\ n <= 15

\* /^\+[1-9]\d{1,14}$/.test(phone)
E164Test(phone) ==
    /\ Len(phone) >= 2
    /\ phone[1] = "+"
    /\ phone[2] \in Digits \ {"0"}
    /\ \A i \in 3..Len(phone) : phone[i] \in Digits
    /\ DigitCountInRange(Len(phone) - 1)

\* validatePhoneNumber(phone)
ValidatePhoneNumber(phone) ==
    IF phone = <<>> THEN Throws(LocalValidationError("Phone number is required"))
    ELSE IF ~ E164Test(phone)
         THEN Throws(LocalValidationError("Invalid phone number format"))
         ELSE Returns("undefined")

\* one call of validatePhoneNumber; the strings tried are a head, a run of one
\* digit and a tail
CheckPhone ==
    /\ fnIn = {}
    /\ \E head \in { <<>>, <<"+">>, <<"+","0">>, <<"+","5">>, <<"5">>, <<" ","+">> },
          digit \in {"0", "7"},
          n \in 0..MaxPhoneDigits,
          tail \in { <<>>, <<"-">>, <<"a">>, <<" ">>, <<"\n">> } :
         LET phone == head \o Run(digit, n) \o tail
         IN  /\ fnIn' = {phone}
             /\ fnOut' = {ValidatePhoneNumber(phone)}
    /\ UNCHANGED <<clientVars, callVars, clsVars, msgVars, concVars>>

SpecPhone == Init /\ [][CheckPhone]_vars

-----------------------------------------------------------------------------
(* utils/validation.ts: calculateSegments *)
(* A text is the sequence of its UTF-16 code units, as text.length and the  *)
(* regex (which has no u flag) see it.                                      *)

\* longest run of the letter A a text tried starts with
MaxTextRun == 162

GsmSingleLimit == 160

GsmMultiLimit == 153

UcsSingleLimit == 70

UcsMultiLimit == 67

\* the largest code unit of the class [\x00-\x7F]
MaxAscii == 127

\* /[^\x00-\x7F]/.test(text)
IsUnicode(text) == \E i \in 1..Len(text) : text[i] > MaxAscii

\* a / b rounded down
FloorDiv(a, b) == a \div b

\* Math.ceil(a / b) for a >= 0, b > 0
CeilDiv(a, b) == (a + b - 1) \div b

\* calculateSegments(text)
CalculateSegments(text) ==
    LET singleLimit == IF IsUnicode(text) THEN UcsSingleLimit ELSE GsmSingleLimit
        multiLimit  == IF IsUnicode(text) THEN UcsMultiLimit ELSE GsmMultiLimit
    IN  IF Len(text) <= singleLimit THEN 1
        ELSE CeilDiv(Len(text), multiLimit)

\* code units: A, e with acute accent, a CJK ideograph, the surrogate pair of
\* an emoji
LetterA == 65

\* one call of calculateSegments; the texts tried are a run of the letter A
\* followed by a tail
CheckSegments ==
    /\ fnIn = {}
    /\ \E n \in 0..MaxTextRun,
          tail \in { <<>>, <<233>>, <<19990>>, <<55357, 56395>>, <<MaxAscii>> } :
         LET text == Run(LetterA, n) \o tail
         IN  /\ fnIn' = {text}
             /\ fnOut' = {Returns(CalculateSegments(text))}
    /\ UNCHANGED <<clientVars, callVars, clsVars, msgVars, concVars>>

SpecSegments == Init /\ [][CheckSegments]_vars

-----------------------------------------------------------------------------
(* webhooks.ts and utils/webhooks.ts: signatures                            *)
(* HMAC-SHA256 is modelled as a keyed digest without collisions: the digest *)
(* of (key, message) is the pair itself, printed as 64 hex characters. A    *)
(* signature string is a literal prefix, at most one digest of which some   *)
(* trailing characters may have been dropped, and literal extra characters. *)

\* length of hmac.digest("hex")
HexDigestLength == 64

\* toleranceSeconds: number = 300
DefaultToleranceSeconds == 300

Sha256Prefix == <<"s","h","a","2","5","6","=">>

EmptyStr == [prefix |-> <<>>, digest |-> {}, dropped |-> 0, extra |-> <<>>]

\* str.length
StrLen(str) ==
    Len(str.prefix)
    + (IF str.digest = {} THEN 0 ELSE HexDigestLength - str.dropped)
    + Len(str.extra)

\* the event a payload string holds
NoEvent == [id |-> {}, type |-> {}, created |-> {}, created_at |-> {}, data |-> "absent"]

\* payload strings: "", text that is not JSON, the JSON text null, a JSON object
EmptyPayload == [kind |-> "empty", doc |-> NoEvent]

TextPayload == [kind |-> "text", doc |-> NoEvent]

JsonPayload(doc) == [kind |-> "json", doc |-> doc]

\* `${timestamp}.${payload}`, or the payload alone
SignedPayload(timestamp, payload) == [timestamp |-> timestamp, payload |-> payload]

\* generateWebhookSignature(message, secret): "sha256=" + digest, the digest
\* crypto.createHmac("sha256", secret).update(message).digest("hex")
GenerateWebhookSignature(message, secret) ==
    [prefix |-> Sha256Prefix, digest |-> {[key |-> secret, message |-> message]},
     dropped |-> 0, extra |-> <<>>]

\* a comparison that looks at the lengths only
TimingSafeEqualLengthOnly(a, b) ==
    IF StrLen(a) # StrLen(b) THEN Throws("RangeError") ELSE Returns(TRUE)

\* crypto.timingSafeEqual(Buffer.from(a), Buffer.from(b)): a RangeError for
\* buffers of different byte lengths
TimingSafeEqual(a, b) ==
    IF StrLen(a) # StrLen(b) THEN Throws("RangeError") ELSE Returns(a = b)

\* truthiness of an optional string argument
StringTruthy(opt) == opt # {} /\ The(opt) # <<>>

\* a verification whose window leaves out the timestamps exactly
\* toleranceSeconds away from now
VerifyWebhookSignatureOpenWindow(payload, signature, secret, timestamp, toleranceSeconds, now) ==
    IF payload.kind = "empty" \/ signature = EmptyStr \/ secret = ""
    THEN Returns(FALSE)
    ELSE IF StringTruthy(timestamp) /\ ParseInt(The(timestamp)) = {}
    THEN Returns(FALSE)
    ELSE IF /\ StringTruthy(timestamp)
            /\ LET age == now - The(ParseInt(The(timestamp)))
               IN  (IF age < 0 THEN 0 - age ELSE age) >= toleranceSeconds
    THEN Returns(FALSE)
    ELSE LET signedPayload == IF StringTruthy(timestamp)
                              THEN SignedPayload(timestamp, payload)
                              ELSE SignedPayload({}, payload)
             expectedSignature == GenerateWebhookSignature(signedPayload, secret)
             compared == TimingSafeEqual(signature, expectedSignature)
         IN  IF compared.threw THEN Returns(FALSE) ELSE compared

\* verifyWebhookSignature(payload, signature, secret, timestamp, toleranceSeconds)
\* called when Math.floor(Date.now() / 1000) is now
VerifyWebhookSignature(payload, signature, secret, timestamp, toleranceSeconds, now) ==
    IF payload.kind = "empty" \/ signature = EmptyStr \/ secret = ""
    THEN Returns(FALSE)
    ELSE IF StringTruthy(timestamp) /\ ParseInt(The(timestamp)) = {}
    THEN Returns(FALSE)
    ELSE IF /\ StringTruthy(timestamp)
            /\ LET age == now - The(ParseInt(The(timestamp)))
               IN  (IF age < 0 THEN 0 - age ELSE age) > toleranceSeconds
    THEN Returns(FALSE)
    ELSE LET signedPayload == IF StringTruthy(timestamp)
                              THEN SignedPayload(timestamp, payload)
                              ELSE SignedPayload({}, payload)
             expectedSignature == GenerateWebhookSignature(signedPayload, secret)
             compared == TimingSafeEqual(signature, expectedSignature)
         IN  IF compared.threw THEN Returns(FALSE) ELSE compared

\* Webhooks.verifySignature(payload, signature, secret) of webhooks.ts
WebhooksVerifySignature(payload, signature, secret) ==
    IF payload.kind = "empty" \/ signature = EmptyStr \/ secret = ""
    THEN Returns(FALSE)
    ELSE LET expectedSignature ==
                 GenerateWebhookSignature(SignedPayload({}, payload), secret)
             compared == TimingSafeEqual(signature, expectedSignature)
         IN  IF StrLen(signature) # StrLen(expectedSignature) THEN Returns(FALSE)
             ELSE IF compared.threw THEN Returns(FALSE) ELSE compared

SecretInputs == {"", "whsec_1", "whsec_2"}

\* Math.floor(Date.now() / 1000), the clock the timestamps are judged by
NowSeconds == 1000

\* payloads: "", text that is not JSON, an event of the nested shape (created,
\* data.object) and one of the legacy flat shape (created_at, data.message_id)
VerifyPayloadInputs ==
    {EmptyPayload, TextPayload,
     JsonPayload([id |-> {"evt_1"}, type |-> {"message.delivered"}, created |-> {1000},
                  created_at |-> {}, data |-> "nested"]),
     JsonPayload([id |-> {"evt_1"}, type |-> {"message.delivered"}, created |-> {},
                  created_at |-> {"2024-01-01T00:00:00Z"}, data |-> "flat"])}

\* one call of verifyWebhookSignature (utils/webhooks.ts) or of
\* Webhooks.verifySignature (webhooks.ts)
CheckVerify ==
    \* signature header values: signatures of this and of other payloads, secrets
    \* and timestamps, a signature without its prefix, one cut short, one with a
    \* character appended, the empty string, and sha256=test
    LET SignatureInputs ==
            { GenerateWebhookSignature(SignedPayload(ts, p), s) :
                ts \in {{}, {<<"1","0","0","0">>}, {<<"6","9","9">>}, {<<"7","0","0">>},
                        {<<"1","3","0","1">>}, {<<"x">>}},
                p \in VerifyPayloadInputs, s \in SecretInputs }
            \cup { [GenerateWebhookSignature(SignedPayload({}, p), "whsec_1")
                      EXCEPT !.prefix = <<>>] : p \in VerifyPayloadInputs }
            \cup { [GenerateWebhookSignature(SignedPayload({}, p), "whsec_1")
                      EXCEPT !.dropped = 1] : p \in VerifyPayloadInputs }
            \cup { [GenerateWebhookSignature(SignedPayload({}, p), "whsec_1")
                      EXCEPT !.extra = <<"0">>] : p \in VerifyPayloadInputs }
            \cup { EmptyStr, [EmptyStr EXCEPT !.prefix = Sha256Prefix, !.extra = <<"t","e","s","t">>] }
    IN  /\ fnIn = {}
        /\ \E payload \in VerifyPayloadInputs, signature \in SignatureInputs,
              secret \in SecretInputs :
             \/ \E timestamp \in { {}, {<<>>}, {<<"1","0","0","0">>}, {<<"7","0","0">>},
                                   {<<"6","9","9">>}, {<<"1","3","0","1">>}, {<<"x">>} } :
                  /\ fnIn' = {[fn |-> "verifyWebhookSignature", payload |-> payload,
                               signature |-> signature, secret |-> secret,
                               timestamp |-> timestamp]}
                  /\ fnOut' = {VerifyWebhookSignature(payload, signature, secret, timestamp,
                                                      DefaultToleranceSeconds, NowSeconds)}
             \/ /\ fnIn' = {[fn |-> "Webhooks.verifySignature", payload |-> payload,
                             signature |-> signature, secret |-> secret,
                             timestamp |-> {}]}
                /\ fnOut' = {WebhooksVerifySignature(payload, signature, secret)}
        /\ UNCHANGED <<clientVars, callVars, clsVars, msgVars, concVars>>

SpecVerify == Init /\ [][CheckVerify]_vars

-----------------------------------------------------------------------------
(* webhooks.ts and utils/webhooks.ts: parsing an event *)

\* an Error object: its class and its message, the message a sequence of parts
JsError(name, message) == [name |-> name, message |-> message]

\* new WebhookSignatureError(message), message defaulting to the first one
InvalidSignatureMessage == <<"Invalid webhook signature">>

WebhookSignatureError(message) == JsError("WebhookSignatureError", message)

\* JSON.parse(payload)
JsonParse(payload) ==
    IF payload.kind \in {"json", "null"} THEN Returns(payload)
    ELSE Throws(JsError("SyntaxError", <<"Unexpected token">>))

\* reading a property of the parsed value null
NullPropertyError == JsError("TypeError", <<"Cannot read properties of null">>)

\* truthiness of event.data (event.data?.object is truthy for the nested shape)
DataTruthy(doc) == doc.data # "absent"

\* parseWebhookEvent(payload, signature, secret, timestamp) of utils/webhooks.ts
ParseWebhookEvent(payload, signature, secret, timestamp) ==
    IF VerifyWebhookSignature(payload, signature, secret, timestamp,
                              DefaultToleranceSeconds, NowSeconds).value # {TRUE}
    THEN Throws(WebhookSignatureError(InvalidSignatureMessage))
    ELSE IF JsonParse(payload).threw
    THEN Throws(JsError("Error", <<"Failed to parse webhook payload">>))
    ELSE IF payload.kind = "null" THEN Throws(NullPropertyError)
    ELSE IF \/ payload.doc.id = {} \/ payload.doc.type = {}
            \/ payload.doc.created = {} \/ payload.doc.data # "nested"
    THEN Throws(JsError("Error", <<"Invalid webhook event structure">>))
    ELSE Returns(payload.doc)

\* the static Webhooks.parseEvent(payload, signature, secret) of utils/webhooks.ts
WebhooksStaticParseEvent(payload, signature, secret) ==
    IF VerifyWebhookSignature(payload, signature, secret, {},
                              DefaultToleranceSeconds, NowSeconds).value # {TRUE}
    THEN Throws(WebhookSignatureError(InvalidSignatureMessage))
    ELSE IF JsonParse(payload).threw
    THEN Throws(WebhookSignatureError(<<"Failed to parse webhook payload">>))
    ELSE IF payload.kind = "null" THEN Throws(NullPropertyError)
    ELSE IF payload.doc.id = {} \/ payload.doc.type = {} \/ payload.doc.created_at = {}
    THEN Throws(WebhookSignatureError(<<"Invalid event structure">>))
    ELSE IF payload.doc.data \in {"flat", "nested"} THEN Returns(payload.doc)
    ELSE IF ~ DataTruthy(payload.doc)
    THEN Throws(WebhookSignatureError(<<"Invalid event structure">>))
    ELSE Returns(payload.doc)

\* Webhooks.parseEvent(payload, signature, secret) of webhooks.ts: whatever
\* the try block throws is rethrown as a WebhookSignatureError
WebhooksParseEvent(payload, signature, secret) ==
    IF WebhooksVerifySignature(payload, signature, secret).value # {TRUE}
    THEN Throws(WebhookSignatureError(InvalidSignatureMessage))
    ELSE LET tried ==
                 IF JsonParse(payload).threw THEN JsonParse(payload)
                 ELSE IF payload.kind = "null" THEN Throws(NullPropertyError)
                 ELSE IF \/ payload.doc.id = {} \/ payload.doc.type = {}
                         \/ ~ DataTruthy(payload.doc) \/ payload.doc.created_at = {}
                 THEN Throws(JsError("Error", <<"Invalid event structure">>))
                 ELSE Returns(payload.doc)
         IN  IF ~ tried.threw THEN tried
             ELSE IF The(tried.error).name = "WebhookSignatureError" THEN tried
             ELSE Throws(WebhookSignatureError(
                      <<"Failed to parse webhook payload: ">> \o The(tried.error).message))

\* one call of parseWebhookEvent, of new Webhooks(secret).parse, of the static
\* Webhooks.parseEvent of utils/webhooks.ts or of Webhooks.parseEvent of
\* webhooks.ts
CheckParse ==
    \* payloads: "", text that is not JSON, the JSON text null, and event objects
    \* with every combination of present fields and shapes of data (absent, flat
    \* with message_id, nested with object, an object with neither)
    LET ParsePayloadInputs ==
            {EmptyPayload, TextPayload, [kind |-> "null", doc |-> NoEvent]}
            \cup { JsonPayload(doc) :
                     doc \in [id : {{}, {"evt_1"}}, type : {{}, {"message.delivered"}},
                              created : {{}, {1000}}, created_at : {{}, {"2024-01-01T00:00:00Z"}},
                              data : {"absent", "flat", "nested", "other"}] }
        \* signature header values for a payload: its signature under the secret,
        \* with the timestamp 1000 and without, under another secret, without the
        \* prefix, and the empty string
        ParseSignatureInputs(payload, secret) ==
            { GenerateWebhookSignature(SignedPayload({}, payload), secret),
              GenerateWebhookSignature(SignedPayload({<<"1","0","0","0">>}, payload), secret),
              GenerateWebhookSignature(SignedPayload({}, payload), "whsec_2"),
              [GenerateWebhookSignature(SignedPayload({}, payload), secret) EXCEPT !.prefix = <<>>],
              EmptyStr }
    IN  /\ fnIn = {}
        /\ \E payload \in ParsePayloadInputs, secret \in {"whsec_1"} :
           \E signature \in ParseSignatureInputs(payload, secret) :
             LET call(fn, ts) == [fn |-> fn, payload |-> payload, signature |-> signature,
                                  secret |-> secret, timestamp |-> ts]
             IN  \/ \E fn \in {"parseWebhookEvent", "Webhooks.parse"} :
                    \E ts \in {{}, {<<"1","0","0","0">>}, {<<"6","9","9">>}} :
                      /\ fnIn' = {call(fn, ts)}
                      /\ fnOut' = {ParseWebhookEvent(payload, signature, secret, ts)}
                 \/ /\ fnIn' = {call("utils Webhooks.parseEvent", {})}
                    /\ fnOut' = {WebhooksStaticParseEvent(payload, signature, secret)}
                 \/ /\ fnIn' = {call("Webhooks.parseEvent", {})}
                    /\ fnOut' = {WebhooksParseEvent(payload, signature, secret)}
        /\ UNCHANGED <<clientVars, callVars, clsVars, msgVars, concVars>>

SpecParse == Init /\ [][CheckParse]_vars

-----------------------------------------------------------------------------
(* utils/validation.ts: the other validators *)
(* Numbers are integers here: a limit that is not an integer is not tried.  *)

MinLimit == 1

MaxLimit == 100

Undefined == "undefined"

\* validateMessageText(text): text is the sequence of its code units
ValidateMessageText(text) ==
    IF text = <<>> THEN Throws(LocalValidationError("Message text is required"))
    ELSE Returns(Undefined)

\* validateSenderId(from)
ValidateSenderId(from) ==
    \* /^[a-zA-Z0-9]{2,11}$/.test(from)
    LET AlphanumericTest ==
            /\ Len(from) >= 2
            /\ Len(from) <= 11
            /\ \A i \in 1..Len(from) : from[i] \in Lower \cup Upper \cup Digits
    IN  IF from = <<>> THEN Returns(Undefined)
        ELSE IF StartsWith(from, <<"+">>) THEN ValidatePhoneNumber(from)
        ELSE IF ~ AlphanumericTest THEN Throws(LocalValidationError("Invalid sender ID"))
        ELSE Returns(Undefined)

\* validateLimit(limit)
ValidateLimit(limit) ==
    IF limit = {} THEN Returns(Undefined)
    ELSE IF The(limit) < MinLimit \/ The(limit) > MaxLimit
         THEN Throws(LocalValidationError("Limit must be between 1 and 100"))
         ELSE Returns(Undefined)

MsgPrefix == <<"m","s","g","_">>

\* validateMessageId(id)
ValidateMessageId(id) ==
    \* /^[0-9a-f]{8}-[0-9a-f]{4}-[0-9a-f]{4}-[0-9a-f]{4}-[0-9a-f]{12}$/i.test(id)
    LET UuidTest ==
            /\ Len(id) = 36
            /\ \A i \in 1..36 :
                 IF i \in {9, 14, 19, 24} THEN id[i] = "-"
                 ELSE id[i] \in Digits \cup {"a","b","c","d","e","f","A","B","C","D","E","F"}
        \* /^msg_[a-zA-Z0-9]+$/.test(id)
        PrefixedTest ==
            /\ StartsWith(id, MsgPrefix)
            /\ Len(id) > Len(MsgPrefix)
            /\ \A i \in (Len(MsgPrefix) + 1)..Len(id) : id[i] \in Lower \cup Upper \cup Digits
    IN  IF id = <<>> THEN Throws(LocalValidationError("Message ID is required"))
        ELSE IF ~ UuidTest /\ ~ PrefixedTest
             THEN Throws(LocalValidationError("Invalid message ID format"))
             ELSE Returns(Undefined)

-----------------------------------------------------------------------------
(* MessagesResource: the methods that validate their arguments              *)
(* this.http.request is the collaborator here: a call hands it request      *)
(* options and is resumed when it resolves or rejects. fetch() is reached   *)
(* through http.request only.                                               *)

\* largest number of requests one listAll is followed for
MaxListAllRequests == 3

\* request.messages.length > 1000
MaxBatchMessages == 1000

\* new Error(text): not a SendlyError
PlainError(text) ==
    [kind |-> "Error", message |-> [text |-> text, status |-> {}],
     code |-> "", statusCode |-> {}, response |-> {}, retryAfter |-> {},
     creditsNeeded |-> {}, currentBalance |-> {}, cause |-> {}]

\* new Date(): the clock when schedule() runs, in ms
NowMs == NowSeconds * 1000

\* 60 * 1000
LeadTimeMs == 60 * 1000

\* a comparison that lets the instant now + 60 s through
TooSoonStrict(scheduledTime, oneMinuteFromNow) == scheduledTime < oneMinuteFromNow

\* scheduledTime <= oneMinuteFromNow
TooSoon(scheduledTime, oneMinuteFromNow) == scheduledTime <= oneMinuteFromNow

\* the two checks schedule() makes of request.scheduledAt. A string is given
\* by whether it denotes an instant and which; new Date(str).getTime() is {}
\* for NaN
CheckScheduledAt(scheduledAt, now) ==
    LET scheduledTime == IF scheduledAt.parses THEN {scheduledAt.ms} ELSE {}
        oneMinuteFromNow == now + LeadTimeMs
    IN  IF scheduledTime = {}
        THEN Throws(PlainError("Invalid scheduledAt format. Use ISO 8601 format."))
        ELSE IF TooSoon(The(scheduledTime), oneMinuteFromNow)
        THEN Throws(PlainError("scheduledAt must be at least 1 minute in the future."))
        ELSE Returns(Undefined)

\* the loop of sendBatch over request.messages: the error of the first message
\* that validatePhoneNumber or validateMessageText refuses
ValidateEachMessage(messages) ==
    LET refused == { i \in 1..Len(messages) :
                       \/ ValidatePhoneNumber(messages[i].to).threw
                       \/ ValidateMessageText(messages[i].text).threw }
        first == CHOOSE i \in refused : \A j \in refused : i <= j
    IN  IF refused = {} THEN Returns(Undefined)
        ELSE IF ValidatePhoneNumber(messages[first].to).threw
        THEN ValidatePhoneNumber(messages[first].to)
        ELSE ValidateMessageText(messages[first].text)

BatchPrefix == <<"b","a","t","c","h","_">>

\* one statement of a method body before its request, run on the arguments
StepOutcome(step, args) ==
    CASE step = "validatePhoneNumber" -> ValidatePhoneNumber(args.to)
      [] step = "validateMessageText" -> ValidateMessageText(args.text)
      [] step = "validateSenderId" ->
             IF StringTruthy(args.from) THEN ValidateSenderId(The(args.from))
             ELSE Returns(Undefined)
      [] step = "checkScheduledAt" -> CheckScheduledAt(args.scheduledAt, NowMs)
      [] step = "checkMessagesArray" ->
             IF args.messages = {} \/ args.messages = {<<>>}
             THEN Throws(PlainError("messages must be a non-empty array"))
             ELSE Returns(Undefined)
      [] step = "checkBatchSize" ->
             IF Len(The(args.messages)) > MaxBatchMessages
             THEN Throws(PlainError("Maximum 1000 messages per batch"))
             ELSE Returns(Undefined)
      [] step = "validateEachMessage" -> ValidateEachMessage(The(args.messages))
      [] step = "validateLimit" -> ValidateLimit(args.limit)
      [] step = "validateMessageId" -> ValidateMessageId(args.id)
      [] step = "checkBatchId" ->
             IF args.batchId = <<>> \/ ~ StartsWith(args.batchId, BatchPrefix)
             THEN Throws(PlainError("Invalid batch ID format"))
             ELSE Returns(Undefined)

\* the statements each method runs on its arguments
ValidationSteps(method) ==
    CASE method = "send" ->
             <<"validatePhoneNumber", "validateMessageText", "validateSenderId">>
      [] method = "schedule" ->
             <<"validatePhoneNumber", "validateMessageText", "validateSenderId",
               "checkScheduledAt">>
      [] method = "sendBatch" ->
             <<"checkMessagesArray", "checkBatchSize", "validateEachMessage",
               "validateSenderId">>
      [] method \in {"list", "listScheduled", "listBatches"} -> <<"validateLimit">>
      [] method \in {"get", "getScheduled", "cancelScheduled"} -> <<"validateMessageId">>
      [] method = "getBatch" -> <<"checkBatchId">>

\* a body that awaits the request first and looks at the arguments afterwards
BodyRequestFirst(method) == <<"request">> \o ValidationSteps(method)

\* the body of a method, in statement order: the checks, then
\* await this.http.request(...)
Body(method) == ValidationSteps(method) \o <<"request">>

\* runs the body from statement i to its first throw, its next await, or its end
RECURSIVE RunFrom(_, _, _)
RunFrom(method, args, i) ==
    IF i > Len(Body(method)) THEN [end |-> "return", error |-> {}, at |-> i]
    ELSE IF Body(method)[i] = "request" THEN [end |-> "await", error |-> {}, at |-> i]
    ELSE LET done == StepOutcome(Body(method)[i], args)
         IN  IF done.threw THEN [end |-> "throw", error |-> done.error, at |-> i]
             ELSE RunFrom(method, args, i + 1)

\* the options a method hands to this.http.request
NoQuery == [limit |-> {}, offset |-> {}]

Options(verb, base, id, query) ==
    [method |-> verb, path |-> [base |-> base, id |-> id], query |-> query]

RequestOptionsOf(method, args) ==
    CASE method = "send" -> Options("POST", "/v1/messages", <<>>, NoQuery)
      [] method = "schedule" -> Options("POST", "/v1/messages/schedule", <<>>, NoQuery)
      [] method = "sendBatch" -> Options("POST", "/v1/messages/batch", <<>>, NoQuery)
      [] method = "list" ->
             Options("GET", "/v1/messages", <<>>, [NoQuery EXCEPT !.limit = args.limit])
      [] method = "listScheduled" ->
             Options("GET", "/v1/messages/scheduled", <<>>,
                     [NoQuery EXCEPT !.limit = args.limit])
      [] method = "listBatches" ->
             Options("GET", "/v1/messages/batches", <<>>,
                     [NoQuery EXCEPT !.limit = args.limit])
      [] method = "get" -> Options("GET", "/v1/messages/", args.id, NoQuery)
      [] method = "getScheduled" ->
             Options("GET", "/v1/messages/scheduled/", args.id, NoQuery)
      [] method = "cancelScheduled" ->
             Options("DELETE", "/v1/messages/scheduled/", args.id, NoQuery)
      [] method = "getBatch" -> Options("GET", "/v1/messages/batch/", args.batchId, NoQuery)

\* listAll: options.limit || 100
ListAllDefaultLimit == 100

\* listAll: Math.min(..., 100)
ListAllMaxBatch == 100

\* the batch size without the cap
ListAllBatchSizeUncapped(limit) == OrNum(limit, ListAllDefaultLimit)

\* listAll: Math.min(options.limit || 100, 100)
ListAllBatchSize(limit) == Min(OrNum(limit, ListAllDefaultLimit), ListAllMaxBatch)

ListAllOptions(batchSize, offset) ==
    Options("GET", "/v1/messages", <<>>, [limit |-> {batchSize}, offset |-> {offset}])

\* arguments the methods are called with
PhoneOk == <<"+","1","5","5","5","1","2","3","4","5","6","7">>

MessageOk == [to |-> PhoneOk, text |-> Run(LetterA, 5)]

LimitInputs == { {}, {0 - 1}, {0}, {1}, {2}, {MaxLimit}, {MaxLimit + 1}, {150} }

\* request.scheduledAt is text that is no date, or an instant around now + 60 s
ArgInputs(method) ==
    LET ToInputs == { PhoneOk, <<>>, <<"1","5","5","5","1","2","3","4","5","6","7">>,
                      <<"+","0","1">> }
        TextInputs5 == { <<>>, Run(LetterA, 5) }
        FromInputs == { {}, {<<>>}, {<<"S","e","n","d","l","y">>}, {<<"a">>},
                        {<<"+","0","1">>}, {PhoneOk} }
        ScheduledAtInputs ==
            { [parses |-> FALSE, ms |-> 0] }
            \cup { [parses |-> TRUE, ms |-> NowMs + d] :
                     d \in {0 - 1, 0, LeadTimeMs - 1, LeadTimeMs, LeadTimeMs + 1,
                            60 * LeadTimeMs} }
        IdInputs ==
            { <<>>, <<"m","s","g","_","a","1">>, MsgPrefix, <<"a","b","c">>,
              Run("a", 8) \o <<"-">> \o Run("b", 4) \o <<"-">> \o Run("4", 4) \o <<"-">>
                \o Run("F", 4) \o <<"-">> \o Run("0", 12),
              Run("a", 8) \o <<"-">> \o Run("b", 4) \o <<"-">> \o Run("4", 4) \o <<"-">>
                \o Run("g", 4) \o <<"-">> \o Run("0", 12) }
        BatchIdInputs == { <<>>, BatchPrefix \o <<"1">>, MsgPrefix \o <<"1">> }
        MessagesInputs ==
            { {}, {<<>>}, {<<MessageOk>>}, {<<MessageOk, [MessageOk EXCEPT !.to = <<>>]>>},
              {<<MessageOk, [MessageOk EXCEPT !.text = <<>>]>>},
              {Run(MessageOk, MaxBatchMessages)}, {Run(MessageOk, MaxBatchMessages + 1)} }
    IN  CASE method = "send" -> [to : ToInputs, text : TextInputs5, from : FromInputs]
          [] method = "schedule" ->
                 [to : ToInputs, text : TextInputs5, from : {{}, {<<"a">>}},
                  scheduledAt : ScheduledAtInputs]
          [] method = "sendBatch" -> [messages : MessagesInputs, from : FromInputs]
          [] method \in {"list", "listScheduled", "listBatches"} -> [limit : LimitInputs]
          [] method \in {"get", "getScheduled", "cancelScheduled"} -> [id : IdInputs]
          [] method = "getBatch" -> [batchId : BatchIdInputs]

\* what running the body from statement i does to the call
Advance(method, args, i, log) ==
    LET run == RunFrom(method, args, i)
    IN  /\ mStep' = run.at
        /\ mThrown' = run.error
        /\ mPc' = CASE run.end = "throw" -> "rejected"
                    [] run.end = "await" -> "awaiting"
                    [] OTHER -> "resolved"
        /\ httpLog' = IF run.end = "await"
                      THEN Append(log, RequestOptionsOf(method, args))
                      ELSE log

\* a call of one of the validating methods, up to its first await or throw
\* (the resource keeps no state between calls: one call is followed)
MessagesCall ==
    /\ mPc = "idle"
    /\ \E method \in {"send", "schedule", "sendBatch", "list", "get", "listScheduled",
                       "getScheduled", "cancelScheduled", "getBatch", "listBatches"} :
       \E args \in ArgInputs(method) :
         /\ mCall' = [method |-> method, args |-> args]
         /\ Advance(method, args, 1, <<>>)
    /\ mFrame' = [batchSize |-> 0, offset |-> 0]
    /\ pages' = <<>>
    /\ yielded' = <<>>
    /\ UNCHANGED <<clientVars, callVars, clsVars, utilVars, concVars>>

\* this.http.request resolves for a validating method: the body goes on
HttpResolves ==
    /\ mPc = "awaiting"
    /\ mCall.method # "listAll"
    /\ Advance(mCall.method, mCall.args, mStep + 1, httpLog)
    /\ UNCHANGED <<clientVars, callVars, clsVars, utilVars, mCall, mFrame, pages, yielded, concVars>>

\* this.http.request rejects, with a failed transport or a 400 of the server:
\* the error leaves the method as it is
HttpRejects ==
    /\ mPc = "awaiting"
    /\ mPc' = "rejected"
    /\ \E error \in
           { NetworkError([text |-> "Network request failed", status |-> {}],
                          {"fetch failed"}),
             FromResponse(400, [NoDoc EXCEPT !.error = {"invalid_request"},
                                             !.message = {ServerMessage}]) } :
         mThrown' = {error}
    /\ UNCHANGED <<clientVars, callVars, clsVars, utilVars, mCall, mStep, mFrame,
                   httpLog, pages, yielded, concVars>>

\* listAll(options), drained by its consumer, up to its first await
ListAllCall ==
    /\ mPc = "idle"
    /\ \E limit \in LimitInputs :
         /\ mCall' = [method |-> "listAll", args |-> [limit |-> limit]]
         /\ mFrame' = [batchSize |-> ListAllBatchSize(limit), offset |-> 0]
         /\ httpLog' = <<ListAllOptions(ListAllBatchSize(limit), 0)>>
    /\ mPc' = "awaiting"
    /\ mStep' = 1
    /\ mThrown' = {}
    /\ pages' = <<>>
    /\ yielded' = <<>>
    /\ UNCHANGED <<clientVars, callVars, clsVars, utilVars, concVars>>

\* a page arrives: its items (the messages at the positions after offset) are
\* yielded, then the loop ends or asks for the next page (a listAll is
\* followed for MaxListAllRequests requests)
ListAllPageArrives ==
    \* the page sizes a server answers a request for batchSize items with
    LET PageSizes(batchSize) ==
            { n \in {0, 1, 50, batchSize - 1, batchSize, batchSize + 1} : n >= 0 }
    IN  /\ mPc = "awaiting"
        /\ mCall.method = "listAll"
        /\ \E n \in PageSizes(mFrame.batchSize) :
             LET data == [i \in 1..n |-> mFrame.offset + i]
             IN  /\ n >= mFrame.batchSize => Len(httpLog) < MaxListAllRequests
                 /\ pages' = Append(pages, data)
                 /\ yielded' = yielded \o data
                 /\ IF n < mFrame.batchSize
                    THEN /\ mPc' = "resolved"
                         /\ UNCHANGED <<mFrame, httpLog>>
                    ELSE /\ mPc' = "awaiting"
                         /\ mFrame' = [mFrame EXCEPT !.offset = @ + mFrame.batchSize]
                         /\ httpLog' = Append(httpLog,
                                ListAllOptions(mFrame.batchSize,
                                               mFrame.offset + mFrame.batchSize))
        /\ UNCHANGED <<clientVars, callVars, clsVars, utilVars, mCall, mStep, mThrown, concVars>>

NextMessages ==
    \/ MessagesCall
    \/ HttpResolves
    \/ HttpRejects
    \/ ListAllCall
    \/ ListAllPageArrives

SpecMessages == Init /\ [][NextMessages]_vars

-----------------------------------------------------------------------------
(* HttpClient.request under the scheduling the runtime guarantees *)
(* A timer that is armed fires: the setTimeout of executeRequest, armed from *)
(* the call of fetch() until the finally block clears it when fetch()        *)
(* settles, and the setTimeout of sleep(). Nothing obliges the transport to  *)
(* answer, to fail or to finish delivering a body.                           *)

\* the timer of executeRequest fires while fetch() is pending: controller.abort()
\* makes fetch() reject with an AbortError
TimerFires ==
    /\ FetchFails
    /\ outcome'.via = "abort"

SpecTimed == Init /\ [][Next]_vars /\ WF_vars(TimerFires) /\ WF_vars(SleepCompletes)

-----------------------------------------------------------------------------
(* Several request() calls in flight on one HttpClient                      *)
(* JavaScript runs each stretch of a call between two awaits to completion: *)
(* the interleavings of calls are the interleavings of these stretches. A   *)
(* call is given by the locals that decide its control flow; the client's   *)
(* fields config and rateLimitInfo are shared by all calls.                 *)

\* number of calls made on the client
MaxCalls == 2

CallIds == 1..MaxCalls

\* the locals of a call that has not been made yet
IdleCall == [pc |-> "idle", attempt |-> 0, inflight |-> NoResponse, transportCalls |-> 0]

\* the client the calls are made on was accepted by the constructor, with one
\* retry
InitConcurrent ==
    /\ ctor = "ok"
    /\ config = BuildConfig([apiKey |-> KeyTest, baseUrl |-> {}, timeout |-> {},
                             maxRetries |-> {1}])
    /\ rateLimitInfo = {}
    /\ lastFullHeaders = {}
    /\ InitCall
    /\ clsIn = {}
    /\ clsOut = {}
    /\ fnIn = {}
    /\ fnOut = {}
    /\ mPc = "idle"
    /\ mCall = [method |-> "", args |-> <<>>]
    /\ mStep = 0
    /\ mFrame = [batchSize |-> 0, offset |-> 0]
    /\ mThrown = {}
    /\ httpLog = <<>>
    /\ pages = <<>>
    /\ yielded = <<>>
    /\ calls = [c \in CallIds |-> IdleCall]

\* the head of the attempt loop of a call, for loop variable a
EnterLoopOf(call, a) ==
    IF LoopContinues(a, config.maxRetries)
    THEN [call EXCEPT !.pc = "fetching", !.attempt = a,
                      !.transportCalls = @ + 1, !.inflight = NoResponse]
    ELSE [call EXCEPT !.pc = "rejected", !.attempt = a, !.inflight = NoResponse]

\* the catch block of a call for the error of its current attempt
CatchOf(call, error) ==
    LET d == CatchDecision(error, call.attempt, config.maxRetries)
    IN  CASE d = "throw" -> [call EXCEPT !.pc = "rejected", !.inflight = NoResponse]
          [] d \in {"rateLimitSleep", "backoffSleep"} ->
               [call EXCEPT !.pc = "sleeping", !.inflight = NoResponse]
          [] OTHER -> [call EXCEPT !.pc = "rejected", !.attempt = @ + 1,
                                   !.inflight = NoResponse]

\* a call of request(options), up to its first await
ConcurrentRequest ==
    \E c \in CallIds :
        /\ calls[c].pc = "idle"
        /\ calls' = [calls EXCEPT ![c] = EnterLoopOf(IdleCall, 0)]
        /\ UNCHANGED <<clientVars, callVars, clsVars, utilVars, msgVars>>

\* fetch() of a call rejects
ConcurrentFetchFails ==
    \E c \in CallIds, via \in {"network", "abort"} :
        /\ calls[c].pc = "fetching"
        /\ calls' = [calls EXCEPT ![c] =
               CatchOf(@, IF via = "abort"
                          THEN TimeoutError([text |-> "Request timed out", status |-> {}])
                          ELSE NetworkError([text |-> "Network request failed",
                                             status |-> {}], {"fetch failed"}))]
        /\ UNCHANGED <<clientVars, callVars, clsVars, utilVars, msgVars>>

\* fetch() of a call resolves with a Response: updateRateLimitInfo runs on the
\* shared client, the body read starts
ConcurrentFetchResponds ==
    \E c \in CallIds, status \in {200, 400, 429, 500}, ct \in ContentTypes,
       headers \in HeaderInputs :
        /\ calls[c].pc = "fetching"
        /\ calls' = [calls EXCEPT ![c] =
               [@ EXCEPT !.pc = "reading",
                         !.inflight = [status |-> status, contentType |-> ct]]]
        /\ rateLimitInfo' = UpdateRateLimitInfo(headers, rateLimitInfo)
        /\ lastFullHeaders' =
               IF /\ headers.limit \notin {{}, {<<>>}}
                  /\ headers.remaining \notin {{}, {<<>>}}
                  /\ headers.reset \notin {{}, {<<>>}}
               THEN {headers} ELSE lastFullHeaders
        /\ UNCHANGED <<ctor, config, callVars, clsVars, utilVars, msgVars>>

\* the body read of a call settles and parseResponse finishes
ConcurrentBodyArrives ==
    \E c \in CallIds :
        /\ calls[c].pc = "reading"
        /\ \E body \in BodiesFor(calls[c].inflight.status) :
             LET done == ParseResponse(calls[c].inflight, body)
             IN  calls' = [calls EXCEPT ![c] =
                     IF done.threw THEN CatchOf(@, The(done.error))
                     ELSE [@ EXCEPT !.pc = "resolved", !.inflight = NoResponse]]
        /\ UNCHANGED <<clientVars, callVars, clsVars, utilVars, msgVars>>

\* the sleep of a call ends: continue, attempt++, the loop head runs again
ConcurrentSleepCompletes ==
    \E c \in CallIds :
        /\ calls[c].pc = "sleeping"
        /\ calls' = [calls EXCEPT ![c] = EnterLoopOf(@, calls[c].attempt + 1)]
        /\ UNCHANGED <<clientVars, callVars, clsVars, utilVars, msgVars>>

NextConcurrent ==
    \/ ConcurrentRequest
    \/ ConcurrentFetchFails
    \/ ConcurrentFetchResponds
    \/ ConcurrentBodyArrives
    \/ ConcurrentSleepCompletes

SpecConcurrent == InitConcurrent /\ [][NextConcurrent]_vars

-----------------------------------------------------------------------------
(* Properties of the attempt loop *)

MaxRetries == config.maxRetries

\* the call has ended
CallDone == pc \in {"resolved", "rejected"}

\* the error the latest attempt produced, read off what the attempt observed
AttemptError ==
    CASE outcome.via = "abort"   -> {e \in thrown : e.kind = "Timeout"}
      [] outcome.via = "network" -> {e \in thrown : e.kind = "Network"}
      [] outcome.via = "response" /\ outcome.body # {} ->
           ParseResponse([status |-> The(outcome.status),
                          contentType |-> outcome.contentType],
                         The(outcome.body)).error
      [] OTHER -> {}

\* C1: with maxRetries = N >= 0, a call whose every attempt fails with a
\* retryable failure (5xx response, network failure, timeout) never invokes the
\* transport more than N + 1 times, does not resolve, and when it ends it has
\* invoked the transport exactly N + 1 times and rejects with the error produced
\* by its final attempt.
C1_RetryableFailuresUseAllAttempts ==
    (ctor = "ok" /\ pc # "idle" /\ onlyRetryable /\ MaxRetries >= 0) =>
        /\ transportCalls <= MaxRetries + 1
        /\ pc # "resolved"
        /\ pc = "rejected" =>
             /\ transportCalls = MaxRetries + 1
             /\ thrown # {}
             /\ thrown = AttemptError

\* C1 witness: the default client (N = 3) rejected after four 5xx answers
C1_Witness ==
    /\ pc = "rejected"
    /\ onlyRetryable
    /\ MaxRetries = DEFAULT_MAX_RETRIES
    /\ transportCalls = 4
    /\ outcome.status = {500}
    /\ \E e \in thrown : e.kind = "Generic" /\ e.statusCode = {500}

NonRetryableKinds == {"Authentication", "Validation", "NotFound", "InsufficientCredits"}

\* C2: once an attempt of the call has produced an Authentication, Validation,
\* NotFound or InsufficientCredits error, whatever its HTTP status, the call has
\* failed with that error: it is neither sleeping nor issuing another request.
C2_NonRetryableKindsFailImmediately ==
    \A e \in lastError :
        e.kind \in NonRetryableKinds => (pc = "rejected" /\ thrown = {e})

\* C3: (a) right after an attempt produced a RateLimit error with attempts
\* remaining, the call sleeps retryAfter * 1000 ms; (b) a call whose every
\* attempt was answered 429 rate_limit_exceeded ends only after 1 + maxRetries
\* transport invocations, rejecting with a RateLimit error that carries the
\* retryAfter the server sent.
C3_RateLimitSleepsRetryAfter ==
    /\ \A e \in lastError :
         (pc \in {"sleeping", "rejected"} /\ e.kind = "RateLimit"
            /\ attempt < MaxRetries) =>
             (pc = "sleeping" /\ lastSleep = {The(e.retryAfter) * 1000})
    /\ (pc = "rejected" /\ onlyRateLimited /\ transportCalls >= 1) =>
         /\ transportCalls = 1 + MaxRetries
         /\ \A e \in thrown :
              /\ e.kind = "RateLimit"
              /\ The(outcome.body).doc.retryAfter # {} =>
                    e.retryAfter = The(outcome.body).doc.retryAfter

\* C4: an attempt that received a 2xx response and whose body has been read ends
\* the call: the call is resolved with the body (parsed JSON for a JSON content
\* type, the text otherwise), and a 2xx on the first attempt means exactly one
\* transport invocation and no sleep.
C4_SuccessEndsTheCall ==
    (outcome.via = "response" /\ outcome.status = {200} /\ outcome.body # {}) =>
        /\ pc = "resolved"
        /\ result = {[format |-> outcome.contentType, doc |-> The(outcome.body).doc]}
        /\ attempt = 0 => (transportCalls = 1 /\ sleepCount = 0)

\* C5: every finished call of an accepted client has invoked the transport at
\* least once and at most 1 + maxRetries times; no call ever exceeds that.
C5_TransportInvocationsBounded ==
    ctor = "ok" =>
        /\ pc # "idle" => transportCalls <= 1 + MaxRetries
        /\ CallDone => transportCalls >= 1

\* C6: every call that fails rejects with exactly one typed error of the taxonomy.
C6_RejectionsAreTyped ==
    pc = "rejected" =>
        /\ Cardinality(thrown) = 1
        /\ \A e \in thrown : e.kind \in SendlyErrorKinds

\* the integers the header texts of the model denote
HeaderNumber ==
    (<<"0">> :> 0) @@ (<<"0","7">> :> 7) @@ (<<"9","5">> :> 95) @@
    (<<"1","0","0">> :> 100) @@ (<<"3","6","0","0">> :> 3600)

\* C7: the snapshot is absent until a response carrying all three rate-limit
\* headers has been received; afterwards it holds the integers of the most recent
\* response, successful or failed, that carried all three.
C7_SnapshotIsLatestFullHeaders ==
    IF lastFullHeaders = {}
    THEN rateLimitInfo = {}
    ELSE LET h == The(lastFullHeaders)
         IN  rateLimitInfo = {[limit     |-> {HeaderNumber[The(h.limit)]},
                               remaining |-> {HeaderNumber[The(h.remaining)]},
                               reset     |-> {HeaderNumber[The(h.reset)]}]}

\* C7 witness: a failed (429) response with limit 0 set the snapshot, and a later
\* response without the headers left it in place
C7_Witness ==
    /\ rateLimitInfo = {[limit |-> {0}, remaining |-> {95}, reset |-> {3600}]}
    /\ pc = "rejected"
    /\ outcome.status = {429}

-----------------------------------------------------------------------------
(* Properties of SendlyError.fromResponse *)

\* the code fromResponse works with: the body's, or internal_error when absent
InputCode ==
    IF The(clsIn).response.error = {} THEN "internal_error"
    ELSE The(The(clsIn).response.error)

\* the kind each code is documented to yield
ExpectedKind(code) ==
    CASE code \in {"unauthorized", "invalid_auth_format", "invalid_key_format",
                   "invalid_api_key", "key_revoked", "key_expired",
                   "insufficient_permissions"} -> "Authentication"
      [] code = "rate_limit_exceeded" -> "RateLimit"
      [] code = "insufficient_credits" -> "InsufficientCredits"
      [] code \in {"invalid_request", "unsupported_destination"} -> "Validation"
      [] code = "not_found" -> "NotFound"
      [] OTHER -> "Generic"

C9_PayloadFieldsCarried ==
    \A in \in clsIn : \A e \in clsOut :
        /\ e.kind = "RateLimit" =>
             e.retryAfter = (IF in.response.retryAfter = {} THEN {60}
                             ELSE in.response.retryAfter)
        /\ e.kind = "InsufficientCredits" =>
             /\ e.creditsNeeded = (IF in.response.creditsNeeded = {} THEN {0}
                                   ELSE in.response.creditsNeeded)
             /\ e.currentBalance = (IF in.response.currentBalance = {} THEN {0}
                                    ELSE in.response.currentBalance)

-----------------------------------------------------------------------------
(* Properties of the constructor *)

\* C10: a client exists only if its base URL is https or its host is exactly
\* localhost or 127.0.0.1, so no request carries the API key over plain http to
\* any other host.
C10_KeyOnlyOverSecureTransport ==
    /\ ctor = "ok" =>
         \/ config.baseUrl.protocol = "https:"
         \/ config.baseUrl.hostname \in {Localhost, Loopback4}
    /\ (transportCalls >= 1 /\ wire.protocol # "https:") =>
         wire.hostname \in {Localhost, Loopback4}

\* the characters a key's token may be made of, as the contract lists them
ContractTokenAlphabet ==
    { "a","b","c","d","e","f","g","h","i","j","k","l","m","n","o","p","q","r",
      "s","t","u","v","w","x","y","z","A","B","C","D","E","F","G","H","I","J",
      "K","L","M","N","O","P","Q","R","S","T","U","V","W","X","Y","Z","0","1",
      "2","3","4","5","6","7","8","9","_","-" }

\* key = head \o token with token one or more characters of the alphabet
KeyHasShape(key, head) ==
    \E n \in 1..Len(key) :
        /\ Len(key) = Len(head) + n
        /\ \A i \in 1..Len(head) : key[i] = head[i]
        /\ \A i \in 1..n : key[Len(head) + i] \in ContractTokenAlphabet

\* C11: the constructor throws, with no client and no request, unless the key
\* is sk_test_v1_<token> or sk_live_v1_<token> with a non-empty token over
\* [A-Za-z0-9_-]; for an accepted key isTestMode() is true exactly for the
\* test prefix.
C11_KeyPatternGatesConstruction ==
    LET test == KeyHasShape(config.apiKey, <<"s","k","_","t","e","s","t","_","v","1","_">>)
        live == KeyHasShape(config.apiKey, <<"s","k","_","l","i","v","e","_","v","1","_">>)
    IN  /\ (ctor # "new" /\ ~ (test \/ live)) =>
             ctor = "threw" /\ pc = "idle" /\ transportCalls = 0
        /\ ctor = "ok" => (IsTestMode(config) <=> test)

\* C11 witness: the key sk_test_v1_ with an empty token was refused, and no
\* request was issued
C11_Witness ==
    /\ ctor = "threw"
    /\ config.apiKey = <<"s","k","_","t","e","s","t","_","v","1","_">>
    /\ transportCalls = 0

-----------------------------------------------------------------------------
(* The authentication codes of the 3.5.2 changelog *)

\* C19: a failed response whose code is api_key_required becomes an
\* Authentication error, as one with unauthorized or invalid_api_key does,
\* and never a Generic error.
C19_ApiKeyRequiredIsAuthentication ==
    \A in \in clsIn : \A e \in clsOut :
        in.response.error \in {{"api_key_required"}, {"unauthorized"},
                                {"invalid_api_key"}} =>
            e.kind = "Authentication"

-----------------------------------------------------------------------------
(* Transport failures *)

\* C20: when fetch() fails in an attempt, the attempt's error is a Timeout
\* error for the abort signal and a Network error holding the cause
\* otherwise; while attempts remain the call sleeps min(1000 * 2^attempt +
\* jitter, 30000) ms with 0 <= jitter < 500 and tries again, and it rejects
\* only with that error, once fetch() was invoked 1 + maxRetries times.
C20_TransportFailuresClassifiedAndRetried ==
    (ctor = "ok" /\ outcome.via \in {"network", "abort"}) =>
        /\ Cardinality(lastError) = 1
        /\ \A e \in lastError :
             /\ outcome.via = "abort" => e.kind = "Timeout"
             /\ outcome.via = "network" => e.kind = "Network" /\ e.cause # {}
        /\ pc \in {"sleeping", "fetching", "rejected"}
        /\ pc = "sleeping" =>
             /\ attempt < config.maxRetries
             /\ \E ms \in lastSleep :
                  LET base == 1000 * (2 ^ attempt)
                  IN  IF base >= 30000 THEN ms = 30000
                      ELSE ms >= base /\ ms < base + 500 /\ ms <= 30000
        /\ pc = "fetching" => transportCalls >= 2 /\ transportCalls = sleepCount + 1
        /\ pc = "rejected" =>
             /\ thrown = lastError
             /\ transportCalls = 1 + config.maxRetries

\* C20 witness: with the default maxRetries of 3 the fourth fetch() timed
\* out after three backoff sleeps and the call rejected with the TimeoutError
C20_Witness ==
    /\ pc = "rejected"
    /\ outcome.via = "abort"
    /\ config.maxRetries = 3
    /\ transportCalls = 4
    /\ sleepCount = 3
    /\ \E e \in thrown : e.kind = "Timeout"

-----------------------------------------------------------------------------
(* Properties of the validation utilities *)

\* a + followed by 1 to 15 digits, the first of them not 0
IsPlusAndDigits(str) ==
    /\ Len(str) >= 2
    /\ Len(str) <= 16
    /\ str[1] = "+"
    /\ str[2] \in {"1","2","3","4","5","6","7","8","9"}
    /\ \A i \in 3..Len(str) : str[i] \in {"0","1","2","3","4","5","6","7","8","9"}

\* C16: validatePhoneNumber returns for exactly the strings made of + and 1 to
\* 15 digits with a non-zero first digit, and throws a ValidationError for
\* every other string.
C16_PhoneAcceptedIffPlusDigits ==
    \A phone \in fnIn : \A out \in fnOut :
        /\ out.threw <=> ~ IsPlusAndDigits(phone)
        /\ out.threw => \A e \in out.error : e.kind = "Validation"

\* the limits of a text: 160 / 153 when every code unit is 7-bit ASCII,
\* else 70 / 67
SegmentLimits(text) ==
    IF \A i \in 1..Len(text) : text[i] <= 127
    THEN [single |-> 160, multi |-> 153]
    ELSE [single |-> 70, multi |-> 67]

-----------------------------------------------------------------------------
(* Properties of webhook verification *)

\* the signature generated from a payload and a secret
SignatureOf(payload, secret) ==
    [prefix |-> <<"s","h","a","2","5","6","=">>,
     digest |-> {[key |-> secret, message |-> [timestamp |-> {}, payload |-> payload]]},
     dropped |-> 0, extra |-> <<>>]

\* the claims of C13 for one call without timestamp, the round trip being
\* required of the payloads and secrets that satisfy roundTripFor
VerifyAsClaimed(in, out, roundTripFor) ==
    /\ ~ out.threw
    /\ (roundTripFor /\ in.signature = SignatureOf(in.payload, in.secret)) =>
           out.value = {TRUE}
    /\ (\E p \in VerifyPayloadInputs, s \in SecretInputs :
           /\ <<p, s>> # <<in.payload, in.secret>>
           /\ in.signature = SignatureOf(p, s)) => out.value = {FALSE}
    /\ in.signature.prefix # <<"s","h","a","2","5","6","=">> => out.value = {FALSE}
    /\ StrLen(in.signature) # 7 + 64 => out.value = {FALSE}

\* C13 as stated: for all payloads and secrets a payload verifies against the
\* signature generated from it; a different secret, a different payload, a
\* missing sha256= prefix or a different length give false; no call throws.
C13_RoundTripForAllPayloadsAndSecrets ==
    \A in \in fnIn : \A out \in fnOut :
        in.timestamp = {} => VerifyAsClaimed(in, out, TRUE)

\* C13 amended: the same, the round trip holding for every non-empty payload
\* and non-empty secret (an empty payload or secret never verifies).
C13_RoundTripForNonEmptyPayloadAndSecret ==
    \A in \in fnIn : \A out \in fnOut :
        in.timestamp = {} =>
            /\ VerifyAsClaimed(in, out, in.payload.kind # "empty" /\ in.secret # "")
            /\ (in.payload.kind = "empty" \/ in.secret = "") => out.value = {FALSE}

\* C13 witness: a JSON payload verified against its own signature
C13_Witness ==
    \E in \in fnIn : \E out \in fnOut :
        /\ in.timestamp = {}
        /\ in.payload.kind = "json"
        /\ in.secret = "whsec_1"
        /\ in.signature = SignatureOf(in.payload, in.secret)
        /\ out.value = {TRUE}

\* the signature a parse call was due: the one generated from its payload
\* (preceded by the timestamp, when one is passed) and its secret, for a
\* non-empty payload and a timestamp within 300 s of the clock
SignatureIsValid(in) ==
    /\ in.payload.kind # "empty"
    /\ in.secret # ""
    /\ in.timestamp \in {{}, {<<"1","0","0","0">>}}
    /\ in.signature =
         [prefix |-> <<"s","h","a","2","5","6","=">>,
          digest |-> {[key |-> in.secret,
                       message |-> [timestamp |-> in.timestamp, payload |-> in.payload]]},
          dropped |-> 0, extra |-> <<>>]

\* a JSON payload without event id, type, data or any creation timestamp
MissesRequiredField(payload) ==
    \/ payload.kind = "null"
    \/ /\ payload.kind = "json"
       /\ \/ payload.doc.id = {}
          \/ payload.doc.type = {}
          \/ payload.doc.data = "absent"
          \/ payload.doc.created = {} /\ payload.doc.created_at = {}

\* the messages of the three failures
NotJsonMessages ==
    { <<"Failed to parse webhook payload">>,
      <<"Failed to parse webhook payload: ", "Unexpected token">> }

MissingFieldMessages ==
    { <<"Invalid event structure">>, <<"Invalid webhook event structure">>,
      <<"Failed to parse webhook payload: ", "Invalid event structure">>,
      <<"Failed to parse webhook payload: ", "Cannot read properties of null">> }

\* C14: every way of parsing an event checks the signature first and throws a
\* WebhookSignatureError in three cases with three different messages: an
\* invalid signature, a payload that is not JSON, a payload without a
\* required field; it returns the event only for a correctly signed,
\* well-formed payload, and does return a complete event.
C14_ParseFailsWithSignatureError ==
    \A in \in fnIn : \A out \in fnOut :
        /\ out.threw => \A e \in out.error : e.name = "WebhookSignatureError"
        /\ ~ SignatureIsValid(in) =>
             out.threw /\ \A e \in out.error : e.message = <<"Invalid webhook signature">>
        /\ (SignatureIsValid(in) /\ in.payload.kind = "text") =>
             out.threw /\ \A e \in out.error : e.message \in NotJsonMessages
        /\ (SignatureIsValid(in) /\ MissesRequiredField(in.payload)) =>
             out.threw /\ \A e \in out.error : e.message \in MissingFieldMessages
        /\ ~ out.threw =>
             /\ SignatureIsValid(in)
             /\ in.payload.kind = "json"
             /\ ~ MissesRequiredField(in.payload)
             /\ out.value = {in.payload.doc}
        /\ ( /\ SignatureIsValid(in)
             /\ in.payload.kind = "json"
             /\ in.payload.doc.id # {} /\ in.payload.doc.type # {}
             /\ in.payload.doc.created # {} /\ in.payload.doc.created_at # {}
             /\ in.payload.doc.data = "nested" ) => ~ out.threw

-----------------------------------------------------------------------------
(* Properties of MessagesResource *)

\* an error made by a method from its arguments: a ValidationError that is
\* not a response of the server, or a plain Error
IsArgumentError(e) ==
    \/ e.kind = "Validation" /\ e.statusCode = {} /\ e.response = {}
    \/ e.kind = "Error"

\* C12: when send, schedule, sendBatch, list, get, listScheduled,
\* getScheduled, cancelScheduled, getBatch or listBatches rejects an argument,
\* the call has made no request and makes none; an empty recipient, an empty
\* message id, a limit of 0 and an empty batch are rejected in this way.
C12_ArgumentRejectionBeforeAnyRequest ==
    mCall.method \in {"send", "schedule", "sendBatch", "list", "get", "listScheduled",
                      "getScheduled", "cancelScheduled", "getBatch", "listBatches"} =>
        /\ (\E e \in mThrown : IsArgumentError(e)) =>
               mPc = "rejected" /\ httpLog = <<>>
        /\ ( \/ mCall.method \in {"send", "schedule"} /\ mCall.args.to = <<>>
             \/ mCall.method \in {"get", "getScheduled", "cancelScheduled"}
                  /\ mCall.args.id = <<>>
             \/ mCall.method \in {"list", "listScheduled", "listBatches"}
                  /\ mCall.args.limit = {0}
             \/ mCall.method = "sendBatch" /\ mCall.args.messages = {<<>>}
             \/ mCall.method = "getBatch" /\ mCall.args.batchId = <<>> ) =>
               /\ mPc = "rejected"
               /\ httpLog = <<>>
               /\ \E e \in mThrown : IsArgumentError(e)
        /\ Len(httpLog) <= 1

\* C12 witness: sendBatch refused a batch whose second message has no
\* recipient, without a request
C12_Witness ==
    /\ mCall.method = "sendBatch"
    /\ mPc = "rejected"
    /\ \E ms \in mCall.args.messages : Len(ms) = 2 /\ ms[2].to = <<>>
    /\ \E e \in mThrown : e.kind = "Validation"
    /\ httpLog = <<>>

\* the batch size of a listAll call: min(requested limit or 100, 100)
ClaimedBatch(limit) ==
    LET requested == IF limit = {} \/ limit = {0} THEN 100 ELSE The(limit)
    IN  IF requested < 100 THEN requested ELSE 100

\* the items of the first n pages, in page order
RECURSIVE ItemsOfPages(_, _)
ItemsOfPages(ps, n) == IF n = 0 THEN <<>> ELSE ItemsOfPages(ps, n - 1) \o ps[n]

\* C15: listAll with batch size b = min(limit or 100, 100) asks for one page
\* at a time, the i-th request with limit b and offset (i - 1) * b, yields the
\* items of the pages in page order, and is finished, with no request after
\* it, exactly by the first page of fewer than b items.
C15_ListAllPagesInOrderAndStops ==
    mCall.method = "listAll" =>
        LET b == ClaimedBatch(mCall.args.limit)
        IN  /\ \A i \in 1..Len(httpLog) :
                 /\ httpLog[i].method = "GET"
                 /\ httpLog[i].path = [base |-> "/v1/messages", id |-> <<>>]
                 /\ httpLog[i].query = [limit |-> {b}, offset |-> {(i - 1) * b}]
            /\ Len(httpLog) = Len(pages) + (IF mPc = "resolved" THEN 0 ELSE 1)
            /\ yielded = ItemsOfPages(pages, Len(pages))
            /\ \A i \in 1..Len(pages) :
                 Len(pages[i]) < b => i = Len(pages) /\ mPc = "resolved"
            /\ mPc = "resolved" => Len(pages) >= 1 /\ Len(pages[Len(pages)]) < b

\* C15 witness: 150 items arrived in pages of 100 and 50, all were yielded,
\* and listAll finished after exactly 2 requests
C15_Witness ==
    /\ mCall.method = "listAll"
    /\ mCall.args.limit = {}
    /\ mPc = "resolved"
    /\ Len(pages) = 2
    /\ Len(pages[1]) = 100
    /\ Len(pages[2]) = 50
    /\ Len(yielded) = 150
    /\ Len(httpLog) = 2

\* the arguments of a schedule call other than scheduledAt are acceptable
ScheduleOtherArgumentsFine ==
    /\ mCall.args.to = <<"+","1","5","5","5","1","2","3","4","5","6","7">>
    /\ mCall.args.text # <<>>
    /\ mCall.args.from = {}

-----------------------------------------------------------------------------
(* The backoff sleeps *)

\* a failure of the classes the backoff policy is stated for: a Network or
\* Timeout error, or the Generic error of a 5xx response
IsBackoffFailure(e) ==
    \/ e.kind \in {"Network", "Timeout"}
    \/ e.kind = "Generic" /\ \E s \in e.statusCode : s >= 500 /\ s <= 599

\* C21: the sleep that follows the attempt with index a, when that attempt
\* failed with a Network, Timeout or 5xx Generic error, is
\* min(1000 * 2^a + j, 30000) ms for a jitter 0 <= j <= 500: at least
\* min(1000 * 2^a, 30000), at most 30000, and at least the base delay of
\* every earlier attempt index of the call.
C21_BackoffSleepWithinBounds ==
    (ctor = "ok" /\ pc = "sleeping") =>
        \A e \in lastError :
            IsBackoffFailure(e) =>
                /\ Cardinality(lastSleep) = 1
                /\ \A ms \in lastSleep :
                     LET base(a) == IF 1000 * (2 ^ a) < 30000 THEN 1000 * (2 ^ a)
                                    ELSE 30000
                     IN  /\ \E j \in 0..500 :
                                ms = (IF 1000 * (2 ^ attempt) + j < 30000
                                      THEN 1000 * (2 ^ attempt) + j ELSE 30000)
                         /\ ms >= base(attempt)
                         /\ ms <= 30000
                         /\ \A a \in 0..attempt : ms >= base(a)

\* C21 witness: after the sixth attempt (index 5) timed out, the call sleeps
\* the capped 30000 ms, 2^5 * 1000 being 32000
C21_Witness ==
    /\ pc = "sleeping"
    /\ attempt = 5
    /\ outcome.via = "abort"
    /\ lastSleep = {30000}
    /\ \E e \in lastError : e.kind = "Timeout"

-----------------------------------------------------------------------------
(* Termination of a call *)

\* C22: every call to request() eventually resolves or rejects whatever the
\* transport does: an attempt whose transport never answers, or that delivers
\* the response headers and never finishes the body, does not leave the call
\* pending forever.
C22_EveryCallEventuallyEnds ==
    (pc \in {"fetching", "reading", "sleeping"}) ~> (pc \in {"resolved", "rejected"})

-----------------------------------------------------------------------------
(* The order of attempts and sleeps *)

\* C23: within one call an attempt starts either as the first one, with no
\* sleep before it, or when the sleep that followed the failed previous
\* attempt completes, so that attempt k has exactly k sleeps before it; a
\* sleep starts only when an attempt has failed and another attempt is to
\* follow, and the call never ends out of a sleep.
C23_AttemptsSequentialOneSleepBetween ==
    [][ /\ (pc' = "fetching" /\ pc # "fetching") =>
             \/ /\ pc \in {"idle", "resolved", "rejected"}
                /\ attempt' = 0
                /\ transportCalls' = 1
                /\ sleepCount' = 0
             \/ /\ pc = "sleeping"
                /\ lastError # {}
                /\ attempt' = attempt + 1
                /\ transportCalls' = transportCalls + 1
                /\ sleepCount' = sleepCount
                /\ sleepCount' = attempt'
        /\ (pc' = "sleeping" /\ pc # "sleeping") =>
             /\ pc \in {"fetching", "reading"}
             /\ lastError' # {}
             /\ sleepCount' = sleepCount + 1
             /\ attempt' = attempt
             /\ attempt < config.maxRetries
        /\ (pc' \in {"resolved", "rejected"} /\ pc \notin {"resolved", "rejected"}) =>
             /\ pc # "sleeping"
             /\ sleepCount' = sleepCount
             /\ sleepCount' = (IF transportCalls' = 0 THEN 0 ELSE transportCalls' - 1)
      ]_vars

\* C23 witness: the fourth attempt of a call is in flight after three failed
\* attempts and three sleeps
C23_Witness ==
    /\ pc = "fetching"
    /\ attempt = 3
    /\ transportCalls = 4
    /\ sleepCount = 3
    /\ lastError # {}

-----------------------------------------------------------------------------
(* Calls in flight on one client *)

\* the snapshot updateRateLimitInfo is to store for the headers h
TripleOf(h) == [limit     |-> {HeaderNumber[The(h.limit)]},
                remaining |-> {HeaderNumber[The(h.remaining)]},
                reset     |-> {HeaderNumber[The(h.reset)]}]

\* C24: with several calls in flight on one client, interleaved in any order,
\* the snapshot is at every moment absent or the (limit, remaining, reset)
\* triple of one single response, never fields of two responses: it is
\* absent until a response with all three headers was processed, and then,
\* also once all calls have finished, the triple of the one processed last.
C24_SnapshotOfOneResponse ==
    /\ rateLimitInfo = {} \/
         \E h \in HeaderInputs :
             /\ h.limit \notin {{}, {<<>>}}
             /\ h.remaining \notin {{}, {<<>>}}
             /\ h.reset \notin {{}, {<<>>}}
             /\ rateLimitInfo = {TripleOf(h)}
    /\ IF lastFullHeaders = {} THEN rateLimitInfo = {}
       ELSE rateLimitInfo = {TripleOf(The(lastFullHeaders))}

\* C24 witness: all calls have finished, two of them after being in flight
\* together, and the snapshot is that of a response with limit 0
C24_Witness ==
    /\ \A c \in CallIds : calls[c].pc \in {"resolved", "rejected"}
    /\ calls[1].attempt = 1
    /\ calls[2].attempt = 1
    /\ rateLimitInfo = {[limit |-> {0}, remaining |-> {95}, reset |-> {3600}]}

-----------------------------------------------------------------------------
(* What leaves the snapshot alone *)

\* h lacks one of the three rate-limit headers
LacksAHeader(h) == h.limit = {} \/ h.remaining = {} \/ h.reset = {}

\* C25: a response that lacks one of the three rate-limit headers leaves the
\* snapshot as it was before the attempt (whatever the snapshot is, and in
\* every step in which a response arrives without being recorded as carrying
\* all three), and so does an attempt in which fetch() fails.
C25_SnapshotKeptWithoutFullHeaders ==
    [][ /\ \A h \in HeaderInputs :
             LacksAHeader(h) => UpdateRateLimitInfo(h, rateLimitInfo) = rateLimitInfo
        /\ (pc = "fetching" /\ pc' = "reading" /\ lastFullHeaders' = lastFullHeaders) =>
             rateLimitInfo' = rateLimitInfo
        /\ (pc = "fetching" /\ outcome'.via \in {"network", "abort"}) =>
             rateLimitInfo' = rateLimitInfo
      ]_vars

\* C25 witness: the snapshot was set by an earlier response, and the attempt
\* after it ended in a network failure with the snapshot still in place
C25_Witness ==
    /\ rateLimitInfo = {[limit |-> {100}, remaining |-> {0}, reset |-> {7}]}
    /\ outcome.via = "network"
    /\ attempt >= 1
    /\ pc = "rejected"

\* C26: no step of any call changes the client configuration; a call starts
\* with attempt 0 and its first fetch() whatever the other calls on the
\* client have done, never invokes fetch() more than 1 + maxRetries times,
\* and is rejected out of a failed fetch() only when it has used all of its
\* own 1 + maxRetries attempts; a step of one call leaves the locals of the
\* other calls alone.
C26_ConfigurationKeptBudgetPerCall ==
    [][ /\ config' = config
        /\ ctor' = ctor
        /\ \A c \in CallIds :
             /\ (calls[c].pc = "idle" /\ calls'[c].pc # "idle") =>
                  /\ calls'[c].pc = "fetching"
                  /\ calls'[c].attempt = 0
                  /\ calls'[c].transportCalls = 1
             /\ calls'[c].transportCalls <= 1 + config.maxRetries
             /\ (calls[c].pc = "fetching" /\ calls'[c].pc = "rejected") =>
                  calls'[c].transportCalls = 1 + config.maxRetries
             /\ calls'[c] # calls[c] =>
                  \A other \in CallIds \ {c} : calls'[other] = calls[other]
      ]_vars

\* C26 witness: the first call was rejected after using both of its attempts,
\* and the second call, started on the same client, is sleeping after its
\* first attempt with its retry still to come
C26_Witness ==
    /\ calls[1].pc = "rejected"
    /\ calls[1].transportCalls = 2
    /\ calls[2].pc = "sleeping"
    /\ calls[2].attempt = 0
    /\ calls[2].transportCalls = 1
    /\ config.maxRetries = 1

-----------------------------------------------------------------------------
(* Termination of listAll *)

\* C27: for every limit option, iterating listAll over a server that holds
\* finitely many messages is finite. Such a server answers every request
\* past its last message with an empty page, and the loop decides on the
\* length of the page and the constant batchSize alone, so the iteration is
\* finite exactly if an empty page ends it: after an empty page the generator
\* has returned and no further request has been issued.
C27_ListAllEndsOnEmptyPage ==
    (mCall.method = "listAll" /\ Len(pages) >= 1 /\ pages[Len(pages)] = <<>>) =>
        /\ mPc = "resolved"
        /\ Len(httpLog) = Len(pages)

-----------------------------------------------------------------------------
(* Which 4xx responses are retried *)

\* C28: once the body of a response with a status from 400 to 499 has been
\* read and the error made of it is not a RateLimit error, the call has been
\* rejected with that error: it neither sleeps nor invokes the transport again.
C28_Only4xxRateLimitRetried ==
    (outcome.via = "response" /\ outcome.body # {}
       /\ \E s \in outcome.status : s >= 400 /\ s <= 499) =>
        \A e \in lastError :
            e.kind # "RateLimit" => (pc = "rejected" /\ thrown = {e})

-----------------------------------------------------------------------------
(* The timestamp window of verifyWebhookSignature *)

\* the integer a timestamp text denotes; a text outside the table denotes none
TimestampNumber ==
    (<<"1","0","0","0">> :> 1000) @@ (<<"7","0","0">> :> 700) @@
    (<<"6","9","9">> :> 699) @@ (<<"1","3","0","1">> :> 1301)

\* the signature of `${timestamp}.${payload}` under the secret
TimestampedSignatureOf(timestamp, payload, secret) ==
    [prefix |-> <<"s","h","a","2","5","6","=">>,
     digest |-> {[key |-> secret,
                  message |-> [timestamp |-> {timestamp}, payload |-> payload]]},
     dropped |-> 0, extra |-> <<>>]

\* |now - timestamp| <= 300 for the clock of the calls, which reads 1000 s
InWindow(timestamp) ==
    /\ timestamp \in DOMAIN TimestampNumber
    /\ TimestampNumber[timestamp] - 1000 <= 300
    /\ 1000 - TimestampNumber[timestamp] <= 300

\* what C29 says of one call with a supplied (non-empty) timestamp, for the
\* payloads and secrets that satisfy exactFor
TimestampedVerifyAsClaimed(in, out, exactFor) ==
    LET ts == The(in.timestamp)
        correct == in.signature = TimestampedSignatureOf(ts, in.payload, in.secret)
    IN  /\ ~ out.threw
        /\ exactFor => (out.value = {TRUE} <=> (correct /\ InWindow(ts)))
        /\ ~ InWindow(ts) => out.value = {FALSE}

\* C29 as stated: for every payload and secret, with a timestamp supplied
\* verifyWebhookSignature returns true exactly when the signature is that of
\* <timestamp>.<payload> under the secret and the timestamp is within 300 s of
\* now; a timestamp outside the window or not an integer gives false.
C29_TimestampedVerifyExactForAll ==
    \A in \in fnIn : \A out \in fnOut :
        (in.fn = "verifyWebhookSignature" /\ in.timestamp \notin {{}, {<<>>}}) =>
            TimestampedVerifyAsClaimed(in, out, TRUE)

\* C29 amended: the same for every non-empty payload and non-empty secret; for
\* an empty payload or an empty secret the result is false.
C29_TimestampedVerifyExactForNonEmpty ==
    \A in \in fnIn : \A out \in fnOut :
        (in.fn = "verifyWebhookSignature" /\ in.timestamp \notin {{}, {<<>>}}) =>
            /\ TimestampedVerifyAsClaimed(in, out,
                   in.payload.kind # "empty" /\ in.secret # "")
            /\ (in.payload.kind = "empty" \/ in.secret = "") => out.value = {FALSE}

\* C29 witness: a timestamp exactly 300 s before now, with the signature of
\* <timestamp>.<payload>, verified
C29_Witness ==
    \E in \in fnIn : \E out \in fnOut :
        /\ in.fn = "verifyWebhookSignature"
        /\ in.timestamp = {<<"7","0","0">>}
        /\ in.payload.kind = "json"
        /\ in.secret = "whsec_1"
        /\ in.signature = TimestampedSignatureOf(<<"7","0","0">>, in.payload, in.secret)
        /\ out.value = {TRUE}

-----------------------------------------------------------------------------
(* The two parsers of utils/webhooks.ts *)

\* C30: new Webhooks(secret).parse(payload, signature) returns an event
\* exactly when the static Webhooks.parseEvent(payload, signature, secret)
\* does; a correctly signed event of the nested shape (created, data.object)
\* and one of the flat shape (created_at, data.message_id) are returned by
\* both.
C30_ParseAgreesWithStaticParseEvent ==
    \A in \in fnIn : \A out \in fnOut :
        (in.fn = "Webhooks.parse" /\ in.timestamp = {}) =>
            LET static == WebhooksStaticParseEvent(in.payload, in.signature, in.secret)
                signed == in.signature = SignatureOf(in.payload, in.secret)
                doc    == in.payload.doc
            IN  /\ out.threw <=> static.threw
                /\ ( /\ signed
                     /\ in.payload.kind = "json"
                     /\ doc.id # {} /\ doc.type # {}
                     /\ \/ doc.created # {} /\ doc.created_at = {} /\ doc.data = "nested"
                        \/ doc.created = {} /\ doc.created_at # {} /\ doc.data = "flat" ) =>
                       (~ out.threw /\ ~ static.threw)

====
